---- MODULE Spec2Model ----
(***************************************************************************)
(* Mesh to narrow-band (signed / unsigned) distance field conversion:      *)
(* openvdb/tools/MeshToVolume.h, class MeshToVolume and the objects of     *)
(* namespace internal it drives.                                           *)
(*                                                                         *)
(* Number representation.  Mesh points are held in half-voxel units.       *)
(* A distance value x is held as an integer code that keeps the order of   *)
(* the reals, so that every comparison of the code is the comparison the   *)
(* program makes:                                                          *)
(*   - in the squared stage (voxelizer .. cleaners) the stored real is a   *)
(*     signed squared index-space distance x and the code is 8x;           *)
(*   - in the Euclidean stage (after SqrtAndScaleOp) the stored real is a  *)
(*     signed world-space distance y and the code is sgn(y) * 8 * y^2.     *)
(* With points on the half-voxel lattice every 8d^2 is an even integer.    *)
(* The two irrational literals of the program are placed on odd codes      *)
(* between the even ones they separate: 0.86602540378443861 (8x = 6.93)    *)
(* is 7, and the clamped minimum band width 1 + 1e-7 (8y^2 = 8.0000016)    *)
(* is 9.                                                                   *)
(***************************************************************************)
EXTENDS Integers, Sequences, FiniteSets, TLC

\* ------------------------------------------------------------------ bounds

\* Largest signSweeps argument passed to the constructor.
MaxSignSweeps == 2

\* ------------------------------------------------------- program constants

\* DistLeafType::DIM: side of a leaf node; the model's window is one leaf.
LeafDim == 8
\* std::numeric_limits<DistValueT>::max(), the initial background of D.
DistMax == 1000000
\* Int32(util::INVALID_IDX), the background of the index grids.
INVALID_IDX == -1
\* enum { GENERATE_PRIM_INDEX_GRID = 0x1 }
GENERATE_PRIM_INDEX_GRID == 1
\* 0.86602540378443861 as a code (see the header).
SqrRadius == 7
\* DistValueT(1.0 + 1e-7) as a band-width code for voxel size 1.
MinBandCode == 9

\* --------------------------------------------------------------- helpers

Abs(x) == IF x < 0 THEN -x ELSE x
Min(a, b) == IF a < b THEN a ELSE b
Max(a, b) == IF a < b THEN b ELSE a

\* ------------------------------------------------------------ the lattice

\* Voxel positions of the leaf: pos = (i * DIM + j) * DIM + k, as in LeafNode.
NumPos == LeafDim * LeafDim * LeafDim
Pos == 0 .. (NumPos - 1)
CI(p) == p \div (LeafDim * LeafDim)
CJ(p) == (p \div LeafDim) % LeafDim
CK(p) == p % LeafDim
PosOf(i, j, k) == (i * LeafDim + j) * LeafDim + k
InLeaf(i, j, k) == /\ 0 <= i /\ i < LeafDim
                   /\ 0 <= j /\ j < LeafDim
                   /\ 0 <= k /\ k < LeafDim

\* util::COORD_OFFSETS, entry n (0-based) by component: the 6 face, then the
\* 12 edge, then the 8 corner neighbours; entries 3 and 5 are +j and +k.
OFFSET_I == <<-1, 1, 0, 0, 0, 0,   1, -1, 1, -1,   1, -1, 1, -1,   0, 0, 0, 0,
              -1, 1, 1, -1, -1, 1, 1, -1>>
OFFSET_J == <<0, 0, -1, 1, 0, 0,   0, 0, 0, 0,   1, 1, -1, -1,   -1, -1, 1, 1,
              -1, -1, 1, 1, -1, -1, 1, 1>>
OFFSET_K == <<0, 0, 0, 0, -1, 1,   -1, -1, 1, 1,   0, 0, 0, 0,   1, -1, 1, -1,
              -1, -1, -1, -1, 1, 1, 1, 1>>
COORD_OFFSETS(n) == <<OFFSET_I[n + 1], OFFSET_J[n + 1], OFFSET_K[n + 1]>>

\* ijk + COORD_OFFSETS[n] as a position of the leaf, or -1 outside the window.
PosOrNone(i, j, k) == IF InLeaf(i, j, k) THEN PosOf(i, j, k) ELSE -1
Nbr(p, n) == PosOrNone(CI(p) + OFFSET_I[n + 1], CJ(p) + OFFSET_J[n + 1], CK(p) + OFFSET_K[n + 1])

\* The neighbours ijk + COORD_OFFSETS[0 .. count-1] that lie inside the window.
Nbrs(p, count) == {Nbr(p, n) : n \in 0 .. (count - 1)} \ {-1}

\* The offset of the first active voxel of a mask leaf after position p, or the size
\* of the leaf: ValueOnIter::operator++.
NextOn(mask, p) ==
  IF \E q \in mask : q > p
  THEN CHOOSE q \in mask : q > p /\ \A r \in mask : r > p => q <= r
  ELSE LeafDim * LeafDim * LeafDim

\* ---------------------------------------------------------------- meshes

\* A mesh is a point list (half-voxel units) and a polygon list of 4-tuples of
\* 0-based point indices, the fourth being INVALID_IDX for a triangle.
\* The polygons of the model are axis-aligned rectangles split along v0-v2,
\* so that the union of (v0,v1,v2) and (v0,v3,v2) is the box spanned by the
\* vertices, and degenerate triangles (segments, points).

\* One unit quad in the plane k = 3.
QuadMesh ==
  [ points |-> << <<6, 6, 6>>, <<8, 6, 6>>, <<8, 8, 6>>, <<6, 8, 6>> >>,
    polys  |-> << <<0, 1, 2, 3>> >>,
    closed |-> FALSE ]

\* The closed box with corners (3, 3, 2.5) and (5, 5, 5.5): 8 points, 6 quads.
\* Its i and j faces pass through voxel centres, its k faces lie half a voxel
\* from the nearest centres, so that intersecting voxels exist on the surface,
\* inside and outside, and the centre voxel (4,4,4) is interior and not
\* intersecting.
BoxMesh ==
  [ points |-> << <<6, 6, 5>>, <<10, 6, 5>>, <<10, 10, 5>>, <<6, 10, 5>>,
                  <<6, 6, 11>>, <<10, 6, 11>>, <<10, 10, 11>>, <<6, 10, 11>> >>,
    polys  |-> << <<0, 1, 2, 3>>, <<4, 5, 6, 7>>,
                  <<0, 1, 5, 4>>, <<3, 2, 6, 7>>,
                  <<0, 3, 7, 4>>, <<1, 2, 6, 5>> >>,
    closed |-> TRUE ]

\* Three parallel quads one voxel apart, in the planes k = 3, 4 and 5: the
\* voxels of the middle quad have no neighbour off the surface.
StackMesh ==
  [ points |-> << <<6, 6, 6>>, <<10, 6, 6>>, <<10, 10, 6>>, <<6, 10, 6>>,
                  <<6, 6, 8>>, <<10, 6, 8>>, <<10, 10, 8>>, <<6, 10, 8>>,
                  <<6, 6, 10>>, <<10, 6, 10>>, <<10, 10, 10>>, <<6, 10, 10>> >>,
    polys  |-> << <<0, 1, 2, 3>>, <<4, 5, 6, 7>>, <<8, 9, 10, 11>> >>,
    closed |-> FALSE ]

\* Two separate quads: one in the plane k = 1.5 with a corner at
\* (1.5, 1.5, 1.5), one in the plane i = 7 around (7, 3, 3).
TwoQuadMesh ==
  [ points |-> << <<1, 1, 3>>, <<3, 1, 3>>, <<3, 3, 3>>, <<1, 3, 3>>,
                  <<14, 4, 4>>, <<14, 8, 4>>, <<14, 8, 8>>, <<14, 4, 8>> >>,
    polys  |-> << <<0, 1, 2, 3>>, <<4, 5, 6, 7>> >>,
    closed |-> FALSE ]

\* The closed box with corners (1, 1, 1.5) and (5, 5, 6): its voxel (3,3,4)
\* is interior and has no 18-neighbour among the intersecting voxels, and
\* every intersecting voxel has its 26 neighbours in the window.
DeepBoxMesh ==
  [ points |-> << <<2, 2, 3>>, <<10, 2, 3>>, <<10, 10, 3>>, <<2, 10, 3>>,
                  <<2, 2, 12>>, <<10, 2, 12>>, <<10, 10, 12>>, <<2, 10, 12>> >>,
    polys  |-> << <<0, 1, 2, 3>>, <<4, 5, 6, 7>>,
                  <<0, 1, 5, 4>>, <<3, 2, 6, 7>>,
                  <<0, 3, 7, 4>>, <<1, 2, 6, 5>> >>,
    closed |-> TRUE ]

\* A mesh without polygons.
EmptyMesh == [ points |-> << >>, polys |-> << >>, closed |-> FALSE ]

Meshes == {QuadMesh, BoxMesh, StackMesh, TwoQuadMesh, EmptyMesh}

Point(mesh, v) == mesh.points[v + 1]
Poly(mesh, q) == mesh.polys[q + 1]
NumPolys(mesh) == Len(mesh.polys)

\* The vertices of polygon q: three, or four for a quad.
PolyVerts(mesh, q) ==
  LET verts == Poly(mesh, q)
  IN {Point(mesh, verts[t]) : t \in (IF verts[4] = INVALID_IDX THEN 1 .. 3 ELSE 1 .. 4)}

\* The extent of polygon q along each axis (half-voxel units).
PrimBox(mesh, q) ==
  LET verts == Poly(mesh, q)
      p0 == Point(mesh, verts[1])
      p1 == Point(mesh, verts[2])
      p2 == Point(mesh, verts[3])
      p3 == IF verts[4] = INVALID_IDX THEN p0 ELSE Point(mesh, verts[4])
  IN [a \in 1 .. 3 |-> [lo |-> Min(Min(p0[a], p1[a]), Min(p2[a], p3[a])),
                        hi |-> Max(Max(p0[a], p1[a]), Max(p2[a], p3[a]))]]

\* Distance along one axis (half-voxel units) from voxel coordinate c to the
\* extent [lo, hi] of the polygon.
AxisGap(c, lo, hi) == Max(Max(lo - 2 * c, 2 * c - hi), 0)

\* The squared distance from the centre of voxel p to the extent `box`, as a
\* code 8 * d^2.
BoxDistSqr(box, p) ==
  LET gi == AxisGap(CI(p), box[1].lo, box[1].hi)
      gj == AxisGap(CJ(p), box[2].lo, box[2].hi)
      gk == AxisGap(CK(p), box[3].lo, box[3].hi)
  IN 2 * (gi * gi + gj * gj + gk * gk)

\* min(triToPtnDistSqr(p0,p1,p2,c), triToPtnDistSqr(p0,p3,p2,c)) as a code
\* 8 * d^2: the squared distance from the voxel centre to the polygon, which
\* for the axis-aligned rectangles of the model is the distance to its extent.
PrimDistSqr(mesh, q, p) == BoxDistSqr(PrimBox(mesh, q), p)

\* util::nearestCoord of a point given in half-voxel units.
NearestCoord(pt) == PosOf((pt[1] + 1) \div 2, (pt[2] + 1) \div 2, (pt[3] + 1) \div 2)

\* ------------------------------------------------------------- voxelizer

\* One MeshVoxelizer body: its private trees and the scratch tree.
NewVoxelizer ==
  [ sqrDist  |-> [p \in Pos |-> DistMax],   sqrOn  |-> {},
    primIdx  |-> [p \in Pos |-> INVALID_IDX], primOn |-> {},
    inter    |-> {},
    lastPrim |-> [p \in Pos |-> INVALID_IDX] ]

\* evalVoxel writing on equal distances too.
EvalVoxelTies(mesh, w, p, q) ==
  LET tmp == PrimDistSqr(mesh, q, p)
  IN IF tmp <= Abs(w.sqrDist[p])
     THEN [w EXCEPT !.sqrDist[p] = -tmp, !.sqrOn = @ \cup {p},
                    !.primIdx[p] = q,    !.primOn = @ \cup {p}]
     ELSE w

\* MeshVoxelizer::evalVoxel, the write.
EvalVoxel(mesh, w, p, q) ==
  LET tmp == PrimDistSqr(mesh, q, p)
  IN IF tmp < Abs(w.sqrDist[p])
     THEN [w EXCEPT !.sqrDist[p] = -tmp, !.sqrOn = @ \cup {p},
                    !.primIdx[p] = q,    !.primOn = @ \cup {p}]
     ELSE w

\* MeshVoxelizer::evalVoxel, the value returned.
EvalVoxelNear(mesh, p, q) == PrimDistSqr(mesh, q, p) < SqrRadius

\* The neighbours ijk + COORD_OFFSETS[0..25] inside the window, in table order.
NbrSeq(p) == SelectSeq([n \in 1 .. 26 |-> Nbr(p, n - 1)], LAMBDA np : np # -1)

\* evalVoxel writing the primitive index only where the index voxel was
\* not yet active: a closer polygon updates the distance but not the index.
EvalNbrsStaleIndex(st, nbrs, tmp) ==
  LET fresh == DOMAIN tmp
      won   == {np \in fresh : tmp[np] < Abs(st.w.sqrDist[np])}
  IN [ st EXCEPT
         !.w.lastPrim = [x \in fresh |-> st.q] @@ @,
         !.w.sqrDist  = [x \in won |-> -tmp[x]] @@ @,
         !.w.sqrOn    = @ \cup won,
         !.w.primIdx  = [x \in won \ st.w.primOn |-> st.q] @@ @,
         !.w.primOn   = @ \cup won,
         !.coordList  = @ \o SelectSeq(nbrs, LAMBDA np : np \in fresh /\ tmp[np] < SqrRadius) ]

\* The for loop over the 26 neighbours of ijk (short-edge branch).  The 26
\* positions are distinct, so the loop is written position-wise: a neighbour
\* whose scratch entry differs from the polygon st.q is stamped and
\* evaluated, and pushed (in table order) when evalVoxel returns true.
\* st: the body w, coordList, the mesh and the polygon index q.
\* nbrs: the neighbours in table order; tmp: the squared distance to the
\* polygon at every neighbour that passes the scratch test.
EvalNbrs(st, nbrs, tmp) ==
  LET fresh == DOMAIN tmp
      won   == {np \in fresh : tmp[np] < Abs(st.w.sqrDist[np])}
  IN [ st EXCEPT
         !.w.lastPrim = [x \in fresh |-> st.q] @@ @,
         !.w.sqrDist  = [x \in won |-> -tmp[x]] @@ @,
         !.w.sqrOn    = @ \cup won,
         !.w.primIdx  = [x \in won |-> st.q] @@ @,
         !.w.primOn   = @ \cup won,
         !.coordList  = @ \o SelectSeq(nbrs, LAMBDA np : np \in fresh /\ tmp[np] < SqrRadius) ]

VisitNbrs(st, p) ==
  LET box == PrimBox(st.mesh, st.q)
  IN EvalNbrs(st, NbrSeq(p),
              [np \in {x \in Nbrs(p, 26) : st.w.lastPrim[x] # st.q} |-> BoxDistSqr(box, np)])

\* The flood without the setActiveState call on the popped voxel.
RECURSIVE FloodPrimUnmarked(_)
FloodPrimUnmarked(st) ==
  IF st.coordList = << >> THEN st
  ELSE LET n   == Len(st.coordList)
           ijk == st.coordList[n]
           st1 == [st EXCEPT !.coordList = SubSeq(@, 1, n - 1)]
       IN FloodPrimUnmarked(VisitNbrs(st1, ijk))

\* while (!coordList.empty()): pop the back, mark it in the intersection
\* tree, visit its neighbours.
RECURSIVE FloodPrim(_)
FloodPrim(st) ==
  IF st.coordList = << >> THEN st
  ELSE LET n   == Len(st.coordList)
           ijk == st.coordList[n]
           st1 == [st EXCEPT !.w.inter = @ \cup {ijk},
                             !.coordList = SubSeq(@, 1, n - 1)]
       IN FloodPrim(VisitNbrs(st1, ijk))

\* The seeds of polygon q: nearestCoord of p0, p1, p2 (and p3 of a quad),
\* each evaluated and pushed.
RECURSIVE SeedPrim(_, _)
SeedPrim(st, t) ==
  LET verts == Poly(st.mesh, st.q)
      last  == IF verts[4] = INVALID_IDX THEN 3 ELSE 4
  IN IF t > last THEN st
     ELSE LET ijk == NearestCoord(Point(st.mesh, verts[t]))
          IN SeedPrim([st EXCEPT !.w = EvalVoxel(st.mesh, @, ijk, st.q),
                                 !.coordList = Append(@, ijk)], t + 1)

\* MeshVoxelizer::shortEdge: the largest extent of the edges v0-v1 and v0-v2
\* is below 200 voxels (400 half-voxel units).
ShortEdge(mesh, q) ==
  LET v0 == Point(mesh, Poly(mesh, q)[1])
      v1 == Point(mesh, Poly(mesh, q)[2])
      v2 == Point(mesh, Poly(mesh, q)[3])
  IN \A a \in 1 .. 3 : Abs(v1[a] - v0[a]) < 400 /\ Abs(v0[a] - v2[a]) < 400

\* The short-edge branch, lines 325-368.
ShortEdgePrim(mesh, w, q) ==
  FloodPrim(SeedPrim([w |-> w, coordList |-> << >>, mesh |-> mesh, q |-> q], 1)).w

\* Lines 372-376: the voxel nearest v0 is evaluated, stamped in the scratch
\* tree and activated in auxTree.
SeedLong(mesh, w, q) ==
  LET ijk == NearestCoord(Point(mesh, Poly(mesh, q)[1]))
  IN [ w    |-> [EvalVoxel(mesh, w, ijk, q) EXCEPT !.lastPrim[ijk] = q],
       aux  |-> {ijk},
       mesh |-> mesh,
       q    |-> q ]

\* The wavefront voxel leaving auxTree without being marked in the
\* intersection tree.
LongVisitUnmarked(st, ijk) ==
  LET r == VisitNbrs([w |-> st.w, coordList |-> << >>, mesh |-> st.mesh, q |-> st.q], ijk)
  IN [st EXCEPT !.w = r.w,
                !.aux = (@ \ {ijk}) \cup {r.coordList[x] : x \in 1 .. Len(r.coordList)}]

\* Lines 391-405: the voxel ijk of the wavefront is turned off in auxTree
\* and marked in the intersection tree; the neighbours evalVoxel returns
\* true for are activated in auxTree.
LongVisit(st, ijk) ==
  LET r == VisitNbrs([w |-> [st.w EXCEPT !.inter = @ \cup {ijk}], coordList |-> << >>,
                      mesh |-> st.mesh, q |-> st.q], ijk)
  IN [st EXCEPT !.w = r.w,
                !.aux = (@ \ {ijk}) \cup {r.coordList[x] : x \in 1 .. Len(r.coordList)}]

\* Lines 378-408: while auxTree is not empty its active voxels are visited
\* in the order of beginValueOn(); a voxel activated behind the iterator
\* waits for the next turn of the while loop.
RECURSIVE LongSweeps(_, _)
LongSweeps(st, cur) ==
  IF st.aux = {} \/ st # st THEN st
  ELSE IF NextOn(st.aux, cur) = LeafDim * LeafDim * LeafDim THEN LongSweeps(st, -1)
  ELSE LongSweeps(LongVisit(st, NextOn(st.aux, cur)), NextOn(st.aux, cur))

\* The long-edge branch, lines 370-410.
LongEdgePrim(mesh, w, q) == LongSweeps(SeedLong(mesh, w, q), -1).w

\* MeshVoxelizer::operator() over the range [from, to).
RECURSIVE VoxelizeRange(_, _, _, _)
VoxelizeRange(mesh, w, from, to) ==
  IF from >= to THEN w
  ELSE VoxelizeRange(mesh,
                     IF ShortEdge(mesh, from) THEN ShortEdgePrim(mesh, w, from)
                     ELSE LongEdgePrim(mesh, w, from),
                     from + 1, to)

\* join without the union of the intersection trees.
JoinVoxelizerLeftMask(lhs, rhs) ==
  LET take == {p \in rhs.sqrOn : -rhs.sqrDist[p] < Abs(lhs.sqrDist[p])}
  IN [ lhs EXCEPT
         !.sqrDist = [p \in Pos |-> IF p \in take THEN rhs.sqrDist[p] ELSE @[p]],
         !.sqrOn   = @ \cup take,
         !.primIdx = [p \in Pos |-> IF p \in take THEN rhs.primIdx[p] ELSE @[p]],
         !.primOn  = @ \cup take ]

\* MeshVoxelizer::join taking the right body's voxel on equal distances too.
JoinVoxelizerTiesRight(lhs, rhs) ==
  LET take == {p \in rhs.sqrOn : -rhs.sqrDist[p] <= Abs(lhs.sqrDist[p])}
  IN [ lhs EXCEPT
         !.sqrDist = [p \in Pos |-> IF p \in take THEN rhs.sqrDist[p] ELSE @[p]],
         !.sqrOn   = @ \cup take,
         !.primIdx = [p \in Pos |-> IF p \in take THEN rhs.primIdx[p] ELSE @[p]],
         !.primOn  = @ \cup take,
         !.inter   = @ \cup rhs.inter ]

\* MeshVoxelizer::join
JoinVoxelizer(lhs, rhs) ==
  LET take == {p \in rhs.sqrOn : -rhs.sqrDist[p] < Abs(lhs.sqrDist[p])}
  IN [ lhs EXCEPT
         !.sqrDist = [p \in Pos |-> IF p \in take THEN rhs.sqrDist[p] ELSE @[p]],
         !.sqrOn   = @ \cup take,
         !.primIdx = [p \in Pos |-> IF p \in take THEN rhs.primIdx[p] ELSE @[p]],
         !.primOn  = @ \cup take,
         !.inter   = @ \cup rhs.inter ]

\* The sub-ranges of [0, stop) that parallel_reduce hands to separate bodies
\* when it cuts the range at split[1] and split[2]; an empty sub-range gets
\* no body.
SubRanges(split, stop) ==
  SelectSeq(<< <<0, Min(split[1], stop)>>,
               <<Min(split[1], stop), Min(split[2], stop)>>,
               <<Min(split[2], stop), stop>> >>,
            LAMBDA r : r[1] < r[2])

\* The joins of parallel_reduce: every right body is joined into the body to
\* its left, the right pair first when rightFirst.
JoinBodies(b, rightFirst) ==
  IF Len(b) = 0 THEN NewVoxelizer
  ELSE IF Len(b) = 1 THEN b[1]
  ELSE IF Len(b) = 2 THEN JoinVoxelizer(b[1], b[2])
  ELSE IF rightFirst THEN JoinVoxelizer(b[1], JoinVoxelizer(b[2], b[3]))
  ELSE JoinVoxelizer(JoinVoxelizer(b[1], b[2]), b[3])

\* MeshVoxelizer::runParallel: one body per sub-range, then the joins.  The
\* bodies stop at the head of polygon `stop` (stop = NumPolys: no interruption).
RunVoxelizer(mesh, split, stop) ==
  LET r == SubRanges(split, stop)
  IN JoinBodies([n \in 1 .. Len(r) |-> VoxelizeRange(mesh, NewVoxelizer, r[n][1], r[n][2])],
                split[3])


\* ----------------------------------------------------------------- grids

\* A distance tree restricted to the window: the leaf's values, its active
\* voxels, the value of the inactive tiles around the leaf and the tree
\* background.  An index tree has val and on; a stencil (bool) tree is the
\* set of its active voxels.
EmptyDist ==
  [ val |-> [p \in Pos |-> DistMax], on |-> {}, tile |-> DistMax, bg |-> DistMax, shift |-> 0 ]
EmptyIndex == [ val |-> [p \in Pos |-> INVALID_IDX], on |-> {} ]

\* Tree::merge(other) on a tree whose active voxels take precedence.
MergeVal(val, on, oval, oon) ==
  [p \in Pos |-> IF p \notin on /\ p \in oon THEN oval[p] ELSE val[p]]

\* The merge of lines 1767-1769 without the poll of line 1765 before it.
MergeVoxelizerUnpolled(g, vox, intr) ==
  [ dist  |-> [g.dist EXCEPT !.val = MergeVal(g.dist.val, g.dist.on, vox.sqrDist, vox.sqrOn),
                             !.on  = @ \cup vox.sqrOn],
    index |-> [g.index EXCEPT !.val = MergeVal(g.index.val, g.index.on, vox.primIdx, vox.primOn),
                              !.on  = @ \cup vox.primOn],
    inter |-> g.inter \cup vox.inter ]

\* doConvert, lines 1765-1769: the voxelizer's trees are merged into the
\* grids unless the interrupter fired.
MergeVoxelizer(g, vox, intr) ==
  IF intr THEN g
  ELSE [ dist  |-> [g.dist EXCEPT !.val = MergeVal(g.dist.val, g.dist.on, vox.sqrDist, vox.sqrOn),
                                  !.on  = @ \cup vox.sqrOn],
         index |-> [g.index EXCEPT !.val = MergeVal(g.index.val, g.index.on, vox.primIdx, vox.primOn),
                                   !.on  = @ \cup vox.primOn],
         inter |-> g.inter \cup vox.inter ]

\* --------------------------------------------------------- contour tracer

\* The backtrace loop of sparseScan: from k down to last_k, stop at the first
\* intersecting voxel, flip negative values.
RECURSIVE Backtrace(_, _, _, _, _, _)
Backtrace(val, inter, i, j, k, last_k) ==
  IF k < last_k \/ k < 0 THEN val
  ELSE LET p == PosOf(i, j, k)
       IN IF p \in inter THEN val
          ELSE Backtrace(IF val[p] < 0 THEN [val EXCEPT ![p] = -val[p]] ELSE val,
                         inter, i, j, k - 1, last_k)

\* The iteration probing the two neighbours of the adjacent slices.
ScanVoxelAcrossSlices(st, on, inter, i, j, k) ==
  LET p == PosOf(i, j, k)
  IN IF p \notin on THEN st
     ELSE IF p \in inter
       THEN [st EXCEPT !.lastVoxelWasOut = FALSE, !.last_k = k]
     ELSE IF st.lastVoxelWasOut
       THEN [st EXCEPT !.val[p] = -st.val[p]]
     ELSE IF \E np \in {Nbr(p, 0), Nbr(p, 1)} : np \in on /\ st.val[np] > 0
             THEN [ val |-> Backtrace([st.val EXCEPT ![p] = -st.val[p]],
                                      inter, i, j, k - 1, st.last_k),
                    lastVoxelWasOut |-> TRUE,
                    last_k |-> k ]
             ELSE [st EXCEPT !.last_k = Min(k, st.last_k)]

\* One iteration of the k loop of sparseScan at voxel (i, j, k).  The state
\* is the values, lastVoxelWasOut and last_k.
ScanVoxel(st, on, inter, i, j, k) ==
  LET p == PosOf(i, j, k)
  IN IF p \notin on THEN st
     ELSE IF p \in inter
       THEN [st EXCEPT !.lastVoxelWasOut = FALSE, !.last_k = k]
     ELSE IF st.lastVoxelWasOut
       THEN [st EXCEPT !.val[p] = -st.val[p]]
     ELSE IF \E np \in {Nbr(p, 3), Nbr(p, 5)} : np \in on /\ st.val[np] > 0
             THEN [ val |-> Backtrace([st.val EXCEPT ![p] = -st.val[p]],
                                      inter, i, j, k - 1, st.last_k),
                    lastVoxelWasOut |-> TRUE,
                    last_k |-> k ]
             ELSE [st EXCEPT !.last_k = Min(k, st.last_k)]

RECURSIVE ScanRow(_, _, _, _, _, _)
ScanRow(st, on, inter, i, j, k) ==
  IF k >= LeafDim THEN st
  ELSE ScanRow(ScanVoxel(st, on, inter, i, j, k), on, inter, i, j, k + 1)

RECURSIVE ScanRows(_, _, _, _, _)
ScanRows(st, on, inter, i, j) ==
  IF j >= LeafDim \/ st # st THEN st
  ELSE ScanRows(ScanRow(st, on, inter, i, j, 0), on, inter, i, j + 1)

\* ContourTracer::sparseScan(slice): lastVoxelWasOut is set once, before the
\* j loop.  Inside the window every step is 1; outside it no voxel is active.
SparseScan(val, on, inter, slice) ==
  ScanRows([val |-> val, lastVoxelWasOut |-> TRUE, last_k |-> 0], on, inter, slice, 0).val

\* ContourTracer::runParallel: every slice reads and writes its own i only.
RECURSIVE TraceSlices(_, _, _, _)
TraceSlices(val, on, inter, slice) ==
  IF slice >= LeafDim \/ val # val THEN val
  ELSE TraceSlices(SparseScan(val, on, inter, slice), on, inter, slice + 1)

ContourTracer(dist, inter) == [dist EXCEPT !.val = TraceSlices(dist.val, dist.on, inter, 0)]

\* --------------------------------------------------------- sign propagator

\* The voxels a flood from `front` reaches through face neighbours that are
\* active, negative and not intersecting.
RECURSIVE TracerReach(_, _, _, _, _)
TracerReach(val, on, inter, done, front) ==
  IF front = {} THEN done
  ELSE TracerReach(val, on, inter, done \cup front,
                   {np \in on \ (inter \cup done \cup front) :
                      val[np] < 0 /\ Nbrs(np, 6) \cap front # {}})

\* surfaceTracer flipping the seed and pushing no neighbour.
SurfaceTracerSeedOnly(val, on, inter, seed) ==
  IF seed \notin on \/ ~(val[seed] < 0) THEN val
  ELSE [val EXCEPT ![seed] = -val[seed]]

\* surfaceTracer(seed): the seed, when active and negative, and every voxel
\* the deque reaches from it have their sign flipped.
SurfaceTracer(val, on, inter, seed) ==
  IF seed \notin on \/ ~(val[seed] < 0) THEN val
  ELSE LET reach == TracerReach(val, on, inter, {}, {seed})
       IN [p \in Pos |-> IF p \in reach THEN -val[p] ELSE val[p]]

\* The test propagateSign makes at an active voxel p: not intersecting,
\* negative, with an active positive face neighbour.
NeedsTrace(val, on, inter, p) ==
  /\ p \notin inter
  /\ val[p] < 0
  /\ \E np \in Nbrs(p, 6) : np \in on /\ val[np] > 0

\* propagateSign from position `from` on: the values change only in
\* surfaceTracer, so the loop runs on to the next voxel that passes the test.
RECURSIVE PropagateFrom(_, _, _, _)
TraceFirst(val, on, inter, hits) ==
  IF hits = {} THEN val
  ELSE LET p == CHOOSE x \in hits : \A y \in hits : x <= y
       IN PropagateFrom(SurfaceTracer(val, on, inter, p), on, inter, p + 1)

PropagateFrom(val, on, inter, from) ==
  TraceFirst(val, on, inter, {p \in on : p >= from /\ NeedsTrace(val, on, inter, p)})

\* propagateSign returning before its loop: no voxel is visited.
PropagateSignSkipped(dist, inter) == dist

\* propagateSign over the one leaf of the window.
PropagateSign(dist, inter) ==
  [dist EXCEPT !.val = PropagateFrom(dist.val, dist.on, inter, 0)]

\* ------------------------------------------ intersecting-voxel sign, cleaners

\* IntersectingVoxelSign::getClosestPointDir before normalize(): voxel centre
\* minus the closest point of the polygon index[ijk], in half-voxel units.
\* normalize() keeps the sign of every dot product and leaves (0,0,0) alone.
ClosestPointDir(mesh, index, p) ==
  LET box == PrimBox(mesh, index.val[p])
      c == <<2 * CI(p), 2 * CJ(p), 2 * CK(p)>>
  IN [a \in 1 .. 3 |-> c[a] - Max(box[a].lo, Min(c[a], box[a].hi))]

Dot(u, v) == u[1] * v[1] + u[2] * v[2] + u[3] * v[3]

\* evalVoxel without the test that skips negative neighbours.
SignFlipsAnySign(mesh, dist, index, inter, p) ==
  /\ dist.val[p] < 0
  /\ \E np \in Nbrs(p, 26) :
       /\ np \notin inter
       /\ np \in dist.on
       /\ Dot(ClosestPointDir(mesh, index, np), ClosestPointDir(mesh, index, p)) > 0

\* IntersectingVoxelSign::evalVoxel: TRUE when the sign of ijk is flipped.
SignFlips(mesh, dist, index, inter, p) ==
  /\ dist.val[p] < 0
  /\ \E np \in Nbrs(p, 26) :
       /\ np \notin inter
       /\ np \in dist.on
       /\ ~(dist.val[np] < 0)
       /\ Dot(ClosestPointDir(mesh, index, np), ClosestPointDir(mesh, index, p)) > 0

\* IntersectingVoxelSign::runParallel over the leaves of the intersection
\* tree: it reads non-intersecting voxels and writes intersecting ones.
IntersectingVoxelSign(mesh, dist, index, inter) ==
  LET flip == {p \in inter : SignFlips(mesh, dist, index, inter, p)}
  IN [dist EXCEPT !.val = [p \in Pos |-> IF p \in flip THEN -@[p] ELSE @[p]],
                  !.on  = @ \cup flip]

\* The cleaner with a neighbour of value 0 counted as outside.
IntersectingVoxelCleanerZeroOutside(dist, inter) ==
  {p \in inter : \E mp \in Nbrs(p, 26) : mp \in dist.on /\ dist.val[mp] >= 0}

\* IntersectingVoxelCleaner::runParallel: `leaf` is a leaf of the
\* intersection tree, so setValueOff clears the voxel there.
IntersectingVoxelCleaner(dist, inter) ==
  {p \in inter : \E mp \in Nbrs(p, 26) : mp \in dist.on /\ dist.val[mp] > 0}

\* The voxels ShellVoxelCleaner works on: active, value <= 0, not intersecting.
ShellCandidates(dist, inter) == {p \in dist.on \ inter : ~(dist.val[p] > 0)}

\* ... of which those without an intersecting voxel among the 18 neighbours.
ShellTurnOff(dist, inter) ==
  {p \in ShellCandidates(dist, inter) : Nbrs(p, 18) \cap inter = {}}

\* The distance tree cleaned with the comparison reversed: values below
\* distC are raised to it.
ShellVoxelCleanerDistRaising(dist, inter) ==
  LET cand == ShellCandidates(dist, inter)
      off  == ShellTurnOff(dist, inter)
  IN [dist EXCEPT
        !.val = [p \in Pos |-> IF p \in off THEN dist.bg
                               ELSE IF p \in cand /\ @[p] < -SqrRadius THEN -SqrRadius
                               ELSE @[p]],
        !.on  = @ \ off]

\* ShellVoxelCleaner::runParallel, the distance tree.  distC is -SqrRadius.
ShellVoxelCleanerDist(dist, inter) ==
  LET cand == ShellCandidates(dist, inter)
      off  == ShellTurnOff(dist, inter)
  IN [dist EXCEPT
        !.val = [p \in Pos |-> IF p \in off THEN dist.bg
                               ELSE IF p \in cand /\ @[p] > -SqrRadius THEN -SqrRadius
                               ELSE @[p]],
        !.on  = @ \ off]

\* ShellVoxelCleaner turning the index voxel off before the neighbour test,
\* at every voxel it works on.
ShellVoxelCleanerIndexEager(dist, index, inter) ==
  LET off == ShellCandidates(dist, inter)
  IN [index EXCEPT !.val = [p \in Pos |-> IF p \in off THEN 0 ELSE @[p]],
                   !.on  = @ \ off]

\* ShellVoxelCleaner::runParallel, the index tree: indexBG is the background
\* of the (bool) intersection tree, false, as an Int32.
ShellVoxelCleanerIndex(dist, index, inter) ==
  LET off == ShellTurnOff(dist, inter)
  IN [index EXCEPT !.val = [p \in Pos |-> IF p \in off THEN 0 ELSE @[p]],
                   !.on  = @ \ off]

\* ------------------------------------------------------- leaf transforms

\* SqrtAndScaleOp with the two weights exchanged: w[0] = -mVoxelSize.
SqrtAndScaleOpSwapped(dist, voxelSize, unsignedDist) ==
  [dist EXCEPT !.val = [p \in Pos |->
      IF p \notin dist.on THEN @[p]
      ELSE IF ~unsignedDist /\ @[p] < 0
           THEN voxelSize * voxelSize * Abs(@[p])
           ELSE -(voxelSize * voxelSize * Abs(@[p]))]]

\* SqrtAndScaleOp: w[!mUnsigned && val < 0] * sqrt(|val|); the code of the
\* result is voxelSize^2 * |code|, signed.
SqrtAndScaleOp(dist, voxelSize, unsignedDist) ==
  [dist EXCEPT !.val = [p \in Pos |->
      IF p \notin dist.on THEN @[p]
      ELSE IF ~unsignedDist /\ @[p] < 0
           THEN -(voxelSize * voxelSize * Abs(@[p]))
           ELSE voxelSize * voxelSize * Abs(@[p])]]

\* Tree::signedFloodFill on the leaf: the inactive voxels take the sign of
\* the active voxel last met in the scan i, then j, then k.
SignedFloodFill(dist) ==
  LET neg(p) == dist.val[p] < 0
      lastOn(S) == CHOOSE x \in S : \A y \in S : y <= x
      first == CHOOSE x \in dist.on : \A y \in dist.on : x <= y
      xIn(ci) == LET S == {p \in {PosOf(x, 0, 0) : x \in 0 .. ci} : p \in dist.on}
                 IN IF S = {} THEN neg(first) ELSE neg(lastOn(S))
      yIn(ci, cj) == LET S == {p \in {PosOf(ci, y, 0) : y \in 0 .. cj} : p \in dist.on}
                     IN IF S = {} THEN xIn(ci) ELSE neg(lastOn(S))
      zIn(p) == LET S == {x \in (p - CK(p)) .. p : x \in dist.on}
                IN IF S = {} THEN yIn(CI(p), CJ(p)) ELSE neg(lastOn(S))
      fill(inside) == IF inside THEN -dist.bg ELSE dist.bg
  IN IF dist.on = {}
     THEN [dist EXCEPT !.val = [p \in Pos |-> fill(dist.val[0] < 0)],
                       !.tile = fill(dist.val[0] < 0)]
     ELSE LET v1 == [p \in Pos |-> IF p \in dist.on THEN dist.val[p] ELSE fill(zIn(p))]
          IN [dist EXCEPT !.val = v1, !.tile = fill(v1[NumPos - 1] < 0)]

\* VoxelSignOp: bgValues[val < 0] at every inactive voxel of the leaf.
VoxelSignOp(dist, exBandWidth, inBandWidth) ==
  [dist EXCEPT !.val = [p \in Pos |->
      IF p \in dist.on THEN @[p]
      ELSE IF @[p] < 0 THEN -inBandWidth ELSE exBandWidth]]

\* doConvert, lines 1870-1880: the same rewrite at the tiles.
TileSignOp(dist, exBandWidth, inBandWidth) ==
  [dist EXCEPT !.tile = IF @ < 0 THEN -inBandWidth ELSE exBandWidth]

\* doConvert, lines 1885-1887: the tree is moved under a new background.
SwapBackground(dist, exBandWidth) == [dist EXCEPT !.bg = exBandWidth]

\* OffsetOp: val += mOffset at every active voxel.  The driver only uses
\* +-0.8 * voxelSize, so the grid carries the number of such steps applied
\* to its active values next to their codes.
OffsetOp(dist, steps) == [dist EXCEPT !.shift = @ + steps]

\* RenormOp's buffer.  For the meshes of the model (axis-aligned boxes and
\* rectangles, sampled exactly) the upwind step never lowers a value.
RenormOp(dist) == dist.val

\* MinOp: val = min(val, buffer) at every active voxel.
MinOp(dist, buffer) ==
  [dist EXCEPT !.val = [p \in Pos |-> IF p \in dist.on THEN Min(@[p], buffer[p]) ELSE @[p]]]

\* TrimOp writing the interior width without its sign and leaving the voxels
\* it rewrites active.
TrimOpKeepsOn(dist, exBandWidth, inBandWidth) ==
  LET inside(p) == dist.val[p] < 0
      trimIn  == {p \in dist.on : inside(p) /\ ~(dist.val[p] > -inBandWidth)}
      trimOut == {p \in dist.on : ~inside(p) /\ ~(dist.val[p] < inBandWidth)}
  IN [dist EXCEPT
        !.val = [p \in Pos |-> IF p \in trimIn THEN inBandWidth
                               ELSE IF p \in trimOut THEN exBandWidth
                               ELSE @[p]]]

\* TrimOp
TrimOp(dist, exBandWidth, inBandWidth) ==
  LET inside(p) == dist.val[p] < 0
      trimIn  == {p \in dist.on : inside(p) /\ ~(dist.val[p] > -inBandWidth)}
      trimOut == {p \in dist.on : ~inside(p) /\ ~(dist.val[p] < inBandWidth)}
  IN [dist EXCEPT
        !.val = [p \in Pos |-> IF p \in trimIn THEN -inBandWidth
                               ELSE IF p \in trimOut THEN exBandWidth
                               ELSE @[p]],
        !.on  = @ \ (trimIn \cup trimOut)]

\* tree.pruneOp(LevelSetPrune): a leaf without active voxels collapses to an
\* inactive tile holding its first value.
LevelSetPrune(dist) ==
  IF dist.on = {} THEN [dist EXCEPT !.val = [p \in Pos |-> dist.val[0]]] ELSE dist

\* ------------------------------------------------------ narrow-band expander

\* tools::dilateVoxels(maskTree): one voxel, face neighbours.
DilateVoxels(mask) ==
  mask \cup ({Nbr(x[1], x[2]) : x \in mask \X (0 .. 5)} \ {-1})

\* ExpandNB::getDistToPrim: sqrt(d^2) * voxelSize as a code.
GetDistToPrim(mesh, p, polyIdx, voxelSize) ==
  voxelSize * voxelSize * PrimDistSqr(mesh, polyIdx, p)

\* ExpandNB::getDist, the loop over the 18 neighbours: the index of the first
\* active neighbour of least |value|, or primIndex as passed in.  Inside
\* ExpandNB the active states are held as arrays of booleans (st.on, st.ion,
\* st.mask) next to the values (st.val, st.ival).
LeastNbr(st, cand, primIndex) ==
  IF cand = {} THEN primIndex
  ELSE st.ival[(CHOOSE c \in cand :
                  \A d \in cand : c[1] < d[1] \/ (c[1] = d[1] /\ c[2] <= d[2]))[3]]

ClosestPrim(st, p, primIndex) ==
  LeastNbr(st, {<<Abs(st.val[x[2]]), x[1], x[2]>> :
                  x \in {y \in {<<n, Nbr(p, n)>> : n \in 0 .. 17} : y[2] # -1 /\ st.on[y[2]]}},
           primIndex)

\* The loop body leaving a voxel it does not activate in the mask.
SetVoxelKeepsMask(st, p, prim, distance) ==
  LET inside == st.val[p] < 0
  IN IF ~inside /\ distance < st.exBandWidth
     THEN [st EXCEPT !.val[p] = distance, !.on[p] = TRUE,
                     !.ival[p] = prim,    !.ion[p] = TRUE,
                     !.closestPrimIndex = prim]
     ELSE IF inside /\ distance < st.inBandWidth
     THEN [st EXCEPT !.val[p] = -distance, !.on[p] = TRUE,
                     !.ival[p] = prim,     !.ion[p] = TRUE,
                     !.closestPrimIndex = prim]
     ELSE [st EXCEPT !.closestPrimIndex = prim]

\* The loop body writing +distance on both sides of the surface.
SetVoxelUnsigned(st, p, prim, distance) ==
  LET inside == st.val[p] < 0
  IN IF ~inside /\ distance < st.exBandWidth
     THEN [st EXCEPT !.val[p] = distance, !.on[p] = TRUE,
                     !.ival[p] = prim,    !.ion[p] = TRUE,
                     !.closestPrimIndex = prim]
     ELSE IF inside /\ distance < st.inBandWidth
     THEN [st EXCEPT !.val[p] = distance, !.on[p] = TRUE,
                     !.ival[p] = prim,    !.ion[p] = TRUE,
                     !.closestPrimIndex = prim]
     ELSE [st EXCEPT !.mask[p] = FALSE, !.closestPrimIndex = prim]

\* The body of the loop over the active mask voxels of ExpandNB::operator().
\* st also carries the members of ExpandNB: the mesh, the widths, mVoxelSize.
SetVoxel(st, p, prim, distance) ==
  LET inside == st.val[p] < 0
  IN IF ~inside /\ distance < st.exBandWidth
     THEN [st EXCEPT !.val[p] = distance, !.on[p] = TRUE,
                     !.ival[p] = prim,    !.ion[p] = TRUE,
                     !.closestPrimIndex = prim]
     ELSE IF inside /\ distance < st.inBandWidth
     THEN [st EXCEPT !.val[p] = -distance, !.on[p] = TRUE,
                     !.ival[p] = prim,     !.ion[p] = TRUE,
                     !.closestPrimIndex = prim]
     ELSE [st EXCEPT !.mask[p] = FALSE, !.closestPrimIndex = prim]

\* ExpandNB::getDist: the closest primitive found around p and the distance
\* to it.
GetDist(st, p, prim) == SetVoxel(st, p, prim, GetDistToPrim(st.mesh, p, prim, st.voxelSize))

\* The loop body leaving a mask voxel that is already active in the
\* distance leaf in the mask.
ExpandVoxelKeepsMask(st, p) ==
  IF ~st.mask[p] THEN st
  ELSE IF st.on[p] THEN st
  ELSE GetDist(st, p, ClosestPrim(st, p, st.closestPrimIndex))

\* The loop body calling setValueOff on the distance leaf as well when the
\* mask voxel is already active there.
ExpandVoxelTurnsOff(st, p) ==
  IF ~st.mask[p] THEN st
  ELSE IF st.on[p] THEN [st EXCEPT !.mask[p] = FALSE, !.on[p] = FALSE]
  ELSE GetDist(st, p, ClosestPrim(st, p, st.closestPrimIndex))

ExpandVoxel(st, p) ==
  IF ~st.mask[p] THEN st
  ELSE IF st.on[p] THEN [st EXCEPT !.mask[p] = FALSE]
  ELSE GetDist(st, p, ClosestPrim(st, p, st.closestPrimIndex))

\* The mask voxels of the leaf in the order of beginValueOn(): positions
\* p .. last of one row, the rows of one slice, the slices.
RECURSIVE ExpandRow(_, _, _)
ExpandRow(st, p, last) ==
  IF p > last THEN st
  ELSE ExpandRow(ExpandVoxel(st, p), p + 1, last)

RECURSIVE ExpandSlice(_, _, _)
ExpandSlice(st, row, last) ==
  IF row > last THEN st
  ELSE ExpandSlice(IF \E k \in 0 .. (LeafDim - 1) : st.mask[row * LeafDim + k]
                   THEN ExpandRow(st, row * LeafDim, row * LeafDim + LeafDim - 1)
                   ELSE st,
                   row + 1, last)

RECURSIVE ExpandLeaf(_, _)
ExpandLeaf(st, slice) ==
  IF slice >= LeafDim \/ st # st THEN st
  ELSE ExpandLeaf(ExpandSlice(st, slice * LeafDim, slice * LeafDim + LeafDim - 1), slice + 1)

\* ExpandNB::runParallel on the mask leaf of the window, whose distance and
\* index leaves exist.
Expanded(dist, index, st) ==
  [ dist  |-> [dist EXCEPT !.val = st.val, !.on = {p \in Pos : st.on[p]}],
    index |-> [index EXCEPT !.val = st.ival, !.on = {p \in Pos : st.ion[p]}],
    mask  |-> {p \in Pos : st.mask[p]} ]

ExpandNB(mesh, dist, index, mask, exBandWidth, inBandWidth, voxelSize) ==
  Expanded(dist, index,
           ExpandLeaf([ val  |-> dist.val,  on  |-> [p \in Pos |-> p \in dist.on],
                        ival |-> index.val, ion |-> [p \in Pos |-> p \in index.on],
                        mask |-> [p \in Pos |-> p \in mask], closestPrimIndex |-> 0,
                        mesh |-> mesh, exBandWidth |-> exBandWidth,
                        inBandWidth |-> inBandWidth, voxelSize |-> voxelSize ], 0))

\* A body before operator() is entered; evald[p] is the set of polygons
\* evalVoxel has been called with at p (kept for the properties).
IdleVoxelizer ==
  [ w |-> NewVoxelizer, n |-> 0, to |-> 0, phase |-> "idle", t |-> 0, ijk |-> -1, nb |-> 0,
    evald |-> [p \in Pos |-> {}] ]

\* ------------------------------------------------------------ MeshToVolume

\* Inputs of the model.
VoxelSizes == {1, 2}
BandWidths == {1, 3}
UnsignedBandWidths == {1, 4}
ConversionFlags == {0, GENERATE_PRIM_INDEX_GRID}
SignSweepValues == {0, 1, MaxSignSweeps}

\* max(1.0 + 1e-7, band) * vs as a code (convertToLevelSet, lines 1726-1729).
BandCode(band, vs) == (IF band <= 1 THEN MinBandCode ELSE 8 * band * band) * vs * vs

\* voxelSize * 2.0 and voxelSize * 3.0 as codes (doConvert, lines 1930, 2037).
MinWidth(vs) == 32 * vs * vs
MinTrimWidth(vs) == 72 * vs * vs

\* The runs of the voxelizer the driver can see: the range of polygons in
\* one piece, cut in two, or cut in three with either order of the joins,
\* and abandoned at `stop` when the interrupter fires during the run.
VoxelizerSplits(m) ==
  LET n == NumPolys(m)
  IN {<<0, 0, FALSE>>, <<n \div 2, n \div 2, FALSE>>,
      <<n \div 3, (2 * n) \div 3, FALSE>>, <<n \div 3, (2 * n) \div 3, TRUE>>}
VoxelizerStops(m) == {NumPolys(m) \div 2, NumPolys(m)}

\* MeshVoxelizer::runParallel as the driver sees it.
Voxelized(m, split, stop) == RunVoxelizer(m, split, stop)

VARIABLES mConversionFlags, signSweeps, mSignSweeps, voxelSize,
          mesh, unsignedDistField, exBandWidth, inBandWidth,
          mDistGrid, mIndexGrid, mIntersectingVoxelsGrid, maskTree,
          i, pc, interrupted, sweepsDone, observed, stage, polysVoxelized,
          coordList, seed, pos, closestPrimIndex, voxelizer

ctorVars == <<mConversionFlags, signSweeps, mSignSweeps, voxelSize>>
argVars  == <<mesh, unsignedDistField, exBandWidth, inBandWidth>>
grids    == <<mDistGrid, mIndexGrid, mIntersectingVoxelsGrid>>
ghosts   == <<sweepsDone, observed, stage, polysVoxelized>>
\* surfaceTracer run as a process of its own: its deque and its seed.
tracerVars == <<coordList, seed>>
\* ExpandNB::operator() run as a process of its own: the offset of the mask
\* voxel its iterator stands on and its local closestPrimIndex.
expanderVars == <<pos, closestPrimIndex>>
\* MeshVoxelizer::operator() run as a process of its own: the body, the
\* polygon it is at and its place in the loops (with coordList).
voxelizerVars == <<voxelizer>>
vars == <<ctorVars, argVars, grids, maskTree, i, pc, interrupted, ghosts, tracerVars,
          expanderVars, voxelizerVars>>

\* The positions of doConvert at which the interrupter is polled and a set
\* flag makes the driver return.
PollPoints ==
  {"voxelize", "sweep", "propagate", "clean", "shell", "count", "sqrt", "flood",
   "voxelsign", "tiles", "bgswap", "offset", "renorm", "offsetBack", "dilate",
   "union", "prune"}

Returned == {"cancelled", "empty", "done"}

\* MeshToVolume::MeshToVolume followed by nothing yet: the grids of clear().
Init ==
  /\ mConversionFlags \in ConversionFlags
  /\ signSweeps \in SignSweepValues
  /\ mSignSweeps = Min(signSweeps, 1)
  /\ voxelSize \in VoxelSizes
  /\ mesh = EmptyMesh
  /\ unsignedDistField = FALSE
  /\ exBandWidth = 0
  /\ inBandWidth = 0
  /\ mDistGrid = EmptyDist
  /\ mIndexGrid = EmptyIndex
  /\ mIntersectingVoxelsGrid = {}
  /\ maskTree = {}
  /\ i = 0
  /\ pc = "idle"
  /\ interrupted = FALSE
  /\ sweepsDone = 0
  /\ observed = FALSE
  /\ stage = "none"
  /\ polysVoxelized = 0
  /\ coordList = << >>
  /\ seed = -1
  /\ pos = -1
  /\ closestPrimIndex = 0
  /\ voxelizer = IdleVoxelizer

\* convertToLevelSet up to the call of doConvert.
ConvertToLevelSet ==
  /\ pc = "idle"
  /\ \E m \in Meshes, ex \in BandWidths, in \in BandWidths :
       /\ mesh' = m
       /\ exBandWidth' = BandCode(ex, voxelSize)
       /\ inBandWidth' = BandCode(in, voxelSize)
  /\ unsignedDistField' = FALSE
  /\ pc' = "voxelize"
  /\ UNCHANGED <<voxelizerVars, expanderVars, tracerVars, ctorVars, grids, maskTree, i, interrupted, ghosts>>

\* convertToUnsignedDistanceField up to the call of doConvert.
ConvertToUnsignedDistanceField ==
  /\ pc = "idle"
  /\ \E m \in Meshes, ex \in UnsignedBandWidths :
       /\ mesh' = m
       /\ exBandWidth' = BandCode(ex, voxelSize)
  /\ inBandWidth' = 0
  /\ unsignedDistField' = TRUE
  /\ pc' = "voxelize"
  /\ UNCHANGED <<voxelizerVars, expanderVars, tracerVars, ctorVars, grids, maskTree, i, interrupted, ghosts>>

\* InterruptT::wasInterrupted starts to answer true (another thread).
Interrupt ==
  /\ pc \notin Returned
  /\ pc # "idle"
  /\ ~interrupted
  /\ interrupted' = TRUE
  /\ UNCHANGED <<voxelizerVars, expanderVars, tracerVars, ctorVars, argVars, grids, maskTree, i, pc, ghosts>>

\* Every `if (wasInterrupted()) return;` of doConvert, and the two `break`s
\* of the sweep loop, which lead to the return of line 1793.
Cancel ==
  /\ pc \in PollPoints
  /\ ~(pc = "count" /\ unsignedDistField)
  /\ interrupted
  /\ observed' = TRUE
  /\ pc' = "cancelled"
  /\ UNCHANGED <<voxelizerVars, expanderVars, tracerVars, ctorVars, argVars, grids, maskTree, i, interrupted, sweepsDone, stage,
                 polysVoxelized>>

\* doConvert, lines 1758-1770 (and 1830-1832 in unsigned mode, where no
\* poll separates the merge from the count of line 1834).
Voxelize ==
  /\ pc = "voxelize"
  /\ ~interrupted
  /\ \E split \in VoxelizerSplits(mesh), fired \in BOOLEAN :
       \E stop \in (IF fired THEN VoxelizerStops(mesh) ELSE {NumPolys(mesh)}) :
         \E g \in {MergeVoxelizer([dist |-> mDistGrid, index |-> mIndexGrid,
                                   inter |-> mIntersectingVoxelsGrid],
                                  Voxelized(mesh, split, stop), fired)} :
            /\ mDistGrid' = g.dist
            /\ mIndexGrid' = g.index
            /\ mIntersectingVoxelsGrid' = g.inter
            /\ interrupted' = fired
            /\ observed' = fired
            /\ stage' = IF fired THEN stage ELSE "voxelize"
            /\ polysVoxelized' = stop
            /\ pc' = IF fired THEN "cancelled"
                     ELSE IF unsignedDistField THEN "count" ELSE "sweep"
  /\ UNCHANGED <<voxelizerVars, expanderVars, tracerVars, ctorVars, argVars, maskTree, i, sweepsDone>>

\* The sweep loop, lines 1780-1783: trace.runParallel().
Trace ==
  /\ pc = "sweep"
  /\ ~interrupted
  /\ i < mSignSweeps
  /\ mDistGrid' = ContourTracer(mDistGrid, mIntersectingVoxelsGrid)
  /\ pc' = "propagate"
  /\ stage' = "trace"
  /\ UNCHANGED <<voxelizerVars, expanderVars, tracerVars, ctorVars, argVars, mIndexGrid, mIntersectingVoxelsGrid, maskTree, i,
                 interrupted, sweepsDone, observed, polysVoxelized>>

\* The sweep loop, lines 1785-1790: propagateSign and ++i.
Propagate ==
  /\ pc = "propagate"
  /\ ~interrupted
  /\ mDistGrid' = PropagateSign(mDistGrid, mIntersectingVoxelsGrid)
  /\ i' = i + 1
  /\ sweepsDone' = sweepsDone + 1
  /\ pc' = "sweep"
  /\ stage' = "propagate"
  /\ UNCHANGED <<voxelizerVars, expanderVars, tracerVars, ctorVars, argVars, mIndexGrid, mIntersectingVoxelsGrid, maskTree,
                 interrupted, observed, polysVoxelized>>

\* Lines 1793-1802: the loop is left, sign.runParallel().
IntersectingSign ==
  /\ pc = "sweep"
  /\ ~interrupted
  /\ ~(i < mSignSweeps)
  /\ mDistGrid' = IntersectingVoxelSign(mesh, mDistGrid, mIndexGrid, mIntersectingVoxelsGrid)
  /\ pc' = "clean"
  /\ stage' = "sign"
  /\ UNCHANGED <<voxelizerVars, expanderVars, tracerVars, ctorVars, argVars, mIndexGrid, mIntersectingVoxelsGrid, maskTree, i,
                 interrupted, sweepsDone, observed, polysVoxelized>>

\* Lines 1804-1811: cleaner.runParallel() of IntersectingVoxelCleaner.
CleanIntersecting ==
  /\ pc = "clean"
  /\ ~interrupted
  /\ mIntersectingVoxelsGrid' = IntersectingVoxelCleaner(mDistGrid, mIntersectingVoxelsGrid)
  /\ pc' = "shell"
  /\ stage' = "clean"
  /\ UNCHANGED <<voxelizerVars, expanderVars, tracerVars, ctorVars, argVars, mDistGrid, mIndexGrid, maskTree, i,
                 interrupted, sweepsDone, observed, polysVoxelized>>

\* Lines 1814-1825: cleaner.runParallel() of ShellVoxelCleaner.
CleanShell ==
  /\ pc = "shell"
  /\ ~interrupted
  /\ mDistGrid' = ShellVoxelCleanerDist(mDistGrid, mIntersectingVoxelsGrid)
  /\ mIndexGrid' = ShellVoxelCleanerIndex(mDistGrid, mIndexGrid, mIntersectingVoxelsGrid)
  /\ pc' = "count"
  /\ stage' = "shell"
  /\ UNCHANGED <<voxelizerVars, expanderVars, tracerVars, ctorVars, argVars, mIntersectingVoxelsGrid, maskTree, i,
                 interrupted, sweepsDone, observed, polysVoxelized>>

\* Lines 1828 (signed mode only) and 1834.
CountVoxels ==
  /\ pc = "count"
  /\ unsignedDistField \/ ~interrupted
  /\ pc' = IF mDistGrid.on = {} THEN "empty" ELSE "sqrt"
  /\ UNCHANGED <<voxelizerVars, expanderVars, tracerVars, ctorVars, argVars, grids, maskTree, i, interrupted, ghosts>>

\* Lines 1839-1850: transform.runParallel() of SqrtAndScaleOp; unsigned mode
\* goes on to the poll of line 1927.
SqrtAndScale ==
  /\ pc = "sqrt"
  /\ ~interrupted
  /\ mDistGrid' = SqrtAndScaleOp(mDistGrid, voxelSize, unsignedDistField)
  /\ pc' = IF unsignedDistField THEN "dilate" ELSE "flood"
  /\ stage' = "sqrt"
  /\ UNCHANGED <<voxelizerVars, expanderVars, tracerVars, ctorVars, argVars, mIndexGrid, mIntersectingVoxelsGrid, maskTree, i,
                 interrupted, sweepsDone, observed, polysVoxelized>>

\* Lines 1850-1854.
FloodFill ==
  /\ pc = "flood"
  /\ ~interrupted
  /\ mDistGrid' = SignedFloodFill(mDistGrid)
  /\ pc' = "voxelsign"
  /\ stage' = "flood"
  /\ UNCHANGED <<voxelizerVars, expanderVars, tracerVars, ctorVars, argVars, mIndexGrid, mIntersectingVoxelsGrid, maskTree, i,
                 interrupted, sweepsDone, observed, polysVoxelized>>

\* Lines 1856-1866.
VoxelSign ==
  /\ pc = "voxelsign"
  /\ ~interrupted
  /\ mDistGrid' = VoxelSignOp(mDistGrid, exBandWidth, inBandWidth)
  /\ pc' = "tiles"
  /\ stage' = "voxelsign"
  /\ UNCHANGED <<voxelizerVars, expanderVars, tracerVars, ctorVars, argVars, mIndexGrid, mIntersectingVoxelsGrid, maskTree, i,
                 interrupted, sweepsDone, observed, polysVoxelized>>

\* Lines 1868-1880.
TileSign ==
  /\ pc = "tiles"
  /\ ~interrupted
  /\ mDistGrid' = TileSignOp(mDistGrid, exBandWidth, inBandWidth)
  /\ pc' = "bgswap"
  /\ stage' = "tiles"
  /\ UNCHANGED <<voxelizerVars, expanderVars, tracerVars, ctorVars, argVars, mIndexGrid, mIntersectingVoxelsGrid, maskTree, i,
                 interrupted, sweepsDone, observed, polysVoxelized>>

\* Lines 1882-1887.
BackgroundSwap ==
  /\ pc = "bgswap"
  /\ ~interrupted
  /\ mDistGrid' = SwapBackground(mDistGrid, exBandWidth)
  /\ pc' = "offset"
  /\ stage' = "bgswap"
  /\ UNCHANGED <<voxelizerVars, expanderVars, tracerVars, ctorVars, argVars, mIndexGrid, mIntersectingVoxelsGrid, maskTree, i,
                 interrupted, sweepsDone, observed, polysVoxelized>>

\* Lines 1902-1906: offsetXform with -offset.
OffsetDown ==
  /\ pc = "offset"
  /\ ~interrupted
  /\ mDistGrid' = OffsetOp(mDistGrid, -1)
  /\ pc' = "renorm"
  /\ stage' = "offset"
  /\ UNCHANGED <<voxelizerVars, expanderVars, tracerVars, ctorVars, argVars, mIndexGrid, mIntersectingVoxelsGrid, maskTree, i,
                 interrupted, sweepsDone, observed, polysVoxelized>>

\* Lines 1908-1916: renormXform, then minXform.
Renormalize ==
  /\ pc = "renorm"
  /\ ~interrupted
  /\ mDistGrid' = MinOp(mDistGrid, RenormOp(mDistGrid))
  /\ pc' = "offsetBack"
  /\ stage' = "renorm"
  /\ UNCHANGED <<voxelizerVars, expanderVars, tracerVars, ctorVars, argVars, mIndexGrid, mIntersectingVoxelsGrid, maskTree, i,
                 interrupted, sweepsDone, observed, polysVoxelized>>

\* Lines 1918-1924: offsetXform with +offset, mIntersectingVoxelsGrid->clear().
OffsetBack ==
  /\ pc = "offsetBack"
  /\ ~interrupted
  /\ mDistGrid' = OffsetOp(mDistGrid, 1)
  /\ mIntersectingVoxelsGrid' = {}
  /\ pc' = "dilate"
  /\ stage' = "offsetBack"
  /\ UNCHANGED <<voxelizerVars, expanderVars, tracerVars, ctorVars, argVars, mIndexGrid, maskTree, i,
                 interrupted, sweepsDone, observed, polysVoxelized>>

NeedsDilation == inBandWidth > MinWidth(voxelSize) \/ exBandWidth > MinWidth(voxelSize)
NeedsTrim == inBandWidth < MinTrimWidth(voxelSize) \/ exBandWidth < MinTrimWidth(voxelSize)

\* Lines 1927-1936: the initial voxel mask.  The leaves the preallocation
\* of lines 1939-2015 adds lie outside the window.
MaskInit ==
  /\ pc = "dilate"
  /\ ~interrupted
  /\ NeedsDilation
  /\ maskTree' = mDistGrid.on
  /\ pc' = "union"
  /\ stage' = "mask"
  /\ UNCHANGED <<voxelizerVars, expanderVars, tracerVars, ctorVars, argVars, grids, i, interrupted, sweepsDone, observed, polysVoxelized>>

\* Lines 1927-1931 when neither width exceeds minWidth.
NoDilation ==
  /\ pc = "dilate"
  /\ ~interrupted
  /\ ~NeedsDilation
  /\ pc' = "finish"
  /\ UNCHANGED <<voxelizerVars, expanderVars, tracerVars, ctorVars, argVars, grids, maskTree, i, interrupted, ghosts>>

\* Lines 2017-2019: mIndexGrid->tree().topologyUnion(mDistGrid->tree()).
IndexUnion ==
  /\ pc = "union"
  /\ ~interrupted
  /\ mIndexGrid' = [mIndexGrid EXCEPT !.on = @ \cup mDistGrid.on]
  /\ pc' = "expand"
  /\ stage' = "union"
  /\ UNCHANGED <<voxelizerVars, expanderVars, tracerVars, ctorVars, argVars, mDistGrid, mIntersectingVoxelsGrid, maskTree, i,
                 interrupted, sweepsDone, observed, polysVoxelized>>

\* One pass of the loop of lines 2021-2032.
Expand ==
  /\ pc = "expand"
  /\ maskTree # {}
  /\ ~interrupted
  /\ \E st \in {ExpandNB(mesh, mDistGrid, mIndexGrid, DilateVoxels(maskTree),
                          exBandWidth, inBandWidth, voxelSize)} :
        /\ mDistGrid' = st.dist
        /\ mIndexGrid' = st.index
        /\ maskTree' = st.mask
  /\ stage' = "expand"
  /\ UNCHANGED <<voxelizerVars, expanderVars, tracerVars, ctorVars, argVars, mIntersectingVoxelsGrid, i, pc,
                 interrupted, sweepsDone, observed, polysVoxelized>>

\* Line 2021: the mask has no active voxel left.
ExpandDone ==
  /\ pc = "expand"
  /\ maskTree = {}
  /\ pc' = "finish"
  /\ UNCHANGED <<voxelizerVars, expanderVars, tracerVars, ctorVars, argVars, grids, maskTree, i, interrupted, ghosts>>

\* Line 2023: `if (wasInterrupted()) break;`
ExpandBreak ==
  /\ pc = "expand"
  /\ maskTree # {}
  /\ interrupted
  /\ observed' = TRUE
  /\ pc' = "finish"
  /\ UNCHANGED <<voxelizerVars, expanderVars, tracerVars, ctorVars, argVars, grids, maskTree, i, interrupted, sweepsDone, stage,
                 polysVoxelized>>

\* The test of line 2035 with its negation dropped.
KeepIndexGridNever == ~(mConversionFlags % (2 * GENERATE_PRIM_INDEX_GRID) >= GENERATE_PRIM_INDEX_GRID)

\* Line 2035: bool(GENERATE_PRIM_INDEX_GRID & mConversionFlags).
KeepIndexGrid == mConversionFlags % (2 * GENERATE_PRIM_INDEX_GRID) >= GENERATE_PRIM_INDEX_GRID

\* Lines 2035-2051: the index grid is dropped unless asked for, TrimOp.
Finish ==
  /\ pc = "finish"
  /\ mIndexGrid' = IF KeepIndexGrid THEN mIndexGrid ELSE EmptyIndex
  /\ mDistGrid' = IF NeedsTrim THEN TrimOp(mDistGrid, exBandWidth, inBandWidth) ELSE mDistGrid
  /\ pc' = "prune"
  /\ stage' = "finish"
  /\ UNCHANGED <<voxelizerVars, expanderVars, tracerVars, ctorVars, argVars, mIntersectingVoxelsGrid, maskTree, i,
                 interrupted, sweepsDone, observed, polysVoxelized>>

\* Lines 2053-2056.
Prune ==
  /\ pc = "prune"
  /\ ~interrupted
  /\ mDistGrid' = LevelSetPrune(mDistGrid)
  /\ pc' = "done"
  /\ stage' = "prune"
  /\ UNCHANGED <<voxelizerVars, expanderVars, tracerVars, ctorVars, argVars, mIndexGrid, mIntersectingVoxelsGrid, maskTree, i,
                 interrupted, sweepsDone, observed, polysVoxelized>>

Next ==
  \/ ConvertToLevelSet
  \/ ConvertToUnsignedDistanceField
  \/ Interrupt
  \/ Cancel
  \/ Voxelize
  \/ Trace
  \/ Propagate
  \/ IntersectingSign
  \/ CleanIntersecting
  \/ CleanShell
  \/ CountVoxels
  \/ SqrtAndScale
  \/ FloodFill
  \/ VoxelSign
  \/ TileSign
  \/ BackgroundSwap
  \/ OffsetDown
  \/ Renormalize
  \/ OffsetBack
  \/ MaskInit
  \/ NoDilation
  \/ IndexUnion
  \/ Expand
  \/ ExpandDone
  \/ ExpandBreak
  \/ Finish
  \/ Prune

Spec == Init /\ [][Next]_vars

\* ------------------------------------------- surfaceTracer, step by step

\* The grids propagateSign can hand to surfaceTracer: the merged
\* voxelization of mesh m, before or after the contour tracer.
TracerGrids(m, traced) ==
  LET g == MergeVoxelizer([dist |-> EmptyDist, index |-> EmptyIndex, inter |-> {}],
                          Voxelized(m, <<0, 0, FALSE>>, NumPolys(m)), FALSE)
  IN [g EXCEPT !.dist = IF traced THEN ContourTracer(g.dist, g.inter) ELSE g.dist]

\* The seeds of the model: the voxels outside M of two rows of the window.
TracerSeeds(inter) ==
  {PosOf(r, r, k) : r \in {2, 4}, k \in 0 .. (LeafDim - 1)} \ inter

\* surfaceTracer(seed, distTree, intersectionTree) entered: lines 1389-1394.
TracerInit ==
  /\ mConversionFlags = 0
  /\ signSweeps = 1
  /\ mSignSweeps = 1
  /\ voxelSize = 1
  /\ mesh \in Meshes
  /\ unsignedDistField = FALSE
  /\ exBandWidth = BandCode(1, 1)
  /\ inBandWidth = BandCode(1, 1)
  /\ \E traced \in BOOLEAN : \E g \in {TracerGrids(mesh, traced)} :
       /\ mDistGrid = g.dist
       /\ mIndexGrid = g.index
       /\ mIntersectingVoxelsGrid = g.inter
  /\ maskTree = {}
  /\ i = 0
  /\ pc = "propagate"
  /\ interrupted = FALSE
  /\ sweepsDone = 0
  /\ observed = FALSE
  /\ stage = "trace"
  /\ polysVoxelized = NumPolys(mesh)
  /\ seed \in TracerSeeds(mIntersectingVoxelsGrid)
  /\ coordList = <<seed>>
  /\ pos = -1
  /\ closestPrimIndex = 0
  /\ voxelizer = IdleVoxelizer

\* The neighbour loop, lines 1406-1417: the face neighbours of ijk that are
\* outside M, active and negative, in table order.
TracerPushesAcrossM(val, on, inter, ijk) ==
  SelectSeq([n \in 1 .. 6 |-> Nbr(ijk, n - 1)],
            LAMBDA np : np # -1 /\ np \in on /\ val[np] < 0)

TracerPushes(val, on, inter, ijk) ==
  SelectSeq([n \in 1 .. 6 |-> Nbr(ijk, n - 1)],
            LAMBDA np : np # -1 /\ np \notin inter /\ np \in on /\ val[np] < 0)

\* One iteration of the while loop that ends in a `continue`.
TracerContinue ==
  /\ coordList # << >>
  /\ \E ijk \in {coordList[Len(coordList)]} :
       \/ ijk \notin mDistGrid.on
       \/ ~(mDistGrid.val[ijk] < 0)
  /\ coordList' = SubSeq(coordList, 1, Len(coordList) - 1)
  /\ UNCHANGED <<voxelizerVars, expanderVars, ctorVars, argVars, grids, maskTree, i, pc, interrupted, ghosts,
                 seed>>

\* One iteration that flips the popped voxel and pushes its neighbours.
TracerFlip ==
  /\ coordList # << >>
  /\ \E ijk \in {coordList[Len(coordList)]} :
       /\ ijk \in mDistGrid.on
       /\ mDistGrid.val[ijk] < 0
       /\ mDistGrid' = [mDistGrid EXCEPT !.val[ijk] = -mDistGrid.val[ijk]]
       /\ coordList' = SubSeq(coordList, 1, Len(coordList) - 1)
                         \o TracerPushes([mDistGrid.val EXCEPT ![ijk] = -mDistGrid.val[ijk]],
                                         mDistGrid.on, mIntersectingVoxelsGrid, ijk)
  /\ UNCHANGED <<voxelizerVars, expanderVars, ctorVars, argVars, mIndexGrid, mIntersectingVoxelsGrid,
                 maskTree, i, pc, interrupted, ghosts, seed>>

TracerNext ==
  \/ TracerContinue
  \/ TracerFlip

\* The loop is sequential code: an iteration that can run does run.
TracerSpec == TracerInit /\ [][TracerNext]_vars /\ WF_vars(TracerNext)

\* ------------------------------------- MeshVoxelizer::operator(), by steps

VoxelizerMeshes == {QuadMesh, BoxMesh, StackMesh}

\* operator()(range) entered by a fresh body for the polygons [from, to).
VoxelizerInit ==
  /\ mConversionFlags = 0
  /\ signSweeps = 1
  /\ mSignSweeps = 1
  /\ voxelSize = 1
  /\ mesh \in VoxelizerMeshes
  /\ unsignedDistField = FALSE
  /\ exBandWidth = BandCode(1, 1)
  /\ inBandWidth = BandCode(1, 1)
  /\ mDistGrid = EmptyDist
  /\ mIndexGrid = EmptyIndex
  /\ mIntersectingVoxelsGrid = {}
  /\ maskTree = {}
  /\ i = 0
  /\ pc = "voxelize"
  /\ interrupted = FALSE
  /\ sweepsDone = 0
  /\ observed = FALSE
  /\ stage = "none"
  /\ polysVoxelized = 0
  /\ coordList = << >>
  /\ seed = -1
  /\ pos = -1
  /\ closestPrimIndex = 0
  /\ \E from \in {0, 1} :
       /\ from < NumPolys(mesh)
       /\ voxelizer = [IdleVoxelizer EXCEPT !.n = from, !.to = NumPolys(mesh),
                                            !.phase = "head"]

\* The number of vertices of the polygon the body is at.
LastVert == IF Poly(mesh, voxelizer.n)[4] = INVALID_IDX THEN 3 ELSE 4

\* Lines 312-326: the head of the loop over the range, coordList.clear().
VoxHead ==
  /\ voxelizer.phase = "head"
  /\ voxelizer.n < voxelizer.to
  /\ voxelizer' = [voxelizer EXCEPT !.phase = "seed", !.t = 1]
  /\ coordList' = << >>
  /\ UNCHANGED <<expanderVars, ctorVars, argVars, grids, maskTree, i, pc, interrupted, ghosts,
                 seed>>

\* Lines 329-349: nearestCoord of vertex t, evalVoxel, push_back.
VoxSeed ==
  /\ voxelizer.phase = "seed"
  /\ \E ijk \in {NearestCoord(Point(mesh, Poly(mesh, voxelizer.n)[voxelizer.t]))} :
       /\ voxelizer' = [voxelizer EXCEPT
                          !.w = EvalVoxel(mesh, @, ijk, voxelizer.n),
                          !.evald[ijk] = @ \cup {voxelizer.n},
                          !.t = @ + 1,
                          !.phase = IF voxelizer.t = LastVert THEN "pop" ELSE "seed"]
       /\ coordList' = Append(coordList, ijk)
  /\ UNCHANGED <<expanderVars, ctorVars, argVars, grids, maskTree, i, pc, interrupted, ghosts,
                 seed>>

\* Lines 351-359: the back of coordList is popped and marked in the
\* intersection tree.
VoxPop ==
  /\ voxelizer.phase = "pop"
  /\ coordList # << >>
  /\ voxelizer' = [voxelizer EXCEPT !.ijk = coordList[Len(coordList)],
                                    !.w.inter = @ \cup {coordList[Len(coordList)]},
                                    !.nb = 0,
                                    !.phase = "nbrs"]
  /\ coordList' = SubSeq(coordList, 1, Len(coordList) - 1)
  /\ UNCHANGED <<expanderVars, ctorVars, argVars, grids, maskTree, i, pc, interrupted, ghosts,
                 seed>>

\* Lines 361-367: neighbour nb of ijk; a neighbour whose scratch entry is
\* not the polygon is stamped, evaluated and pushed when evalVoxel returns
\* true.  Neighbours outside the window are not followed.
VoxNbr ==
  /\ voxelizer.phase = "nbrs"
  /\ \E n_ijk \in {Nbr(voxelizer.ijk, voxelizer.nb)} :
       IF n_ijk # -1 /\ voxelizer.w.lastPrim[n_ijk] # voxelizer.n
       THEN /\ voxelizer' = [voxelizer EXCEPT
                               !.w = EvalVoxel(mesh, [@ EXCEPT !.lastPrim[n_ijk] = voxelizer.n],
                                               n_ijk, voxelizer.n),
                               !.evald[n_ijk] = @ \cup {voxelizer.n},
                               !.nb = @ + 1,
                               !.phase = IF voxelizer.nb = 25 THEN "pop" ELSE "nbrs"]
            /\ coordList' = IF EvalVoxelNear(mesh, n_ijk, voxelizer.n)
                            THEN Append(coordList, n_ijk) ELSE coordList
       ELSE /\ voxelizer' = [voxelizer EXCEPT
                               !.nb = @ + 1,
                               !.phase = IF voxelizer.nb = 25 THEN "pop" ELSE "nbrs"]
            /\ coordList' = coordList
  /\ UNCHANGED <<expanderVars, ctorVars, argVars, grids, maskTree, i, pc, interrupted, ghosts,
                 seed>>

\* Lines 351 and 312: coordList is empty, ++n.
VoxNext ==
  /\ voxelizer.phase = "pop"
  /\ coordList = << >>
  /\ voxelizer' = [voxelizer EXCEPT !.n = @ + 1, !.phase = "head"]
  /\ UNCHANGED <<tracerVars, expanderVars, ctorVars, argVars, grids, maskTree, i, pc,
                 interrupted, ghosts>>

VoxelizerNext ==
  \/ VoxHead
  \/ VoxSeed
  \/ VoxPop
  \/ VoxNbr
  \/ VoxNext

VoxelizerSpec == VoxelizerInit /\ [][VoxelizerNext]_vars

\* --------------------------------------- the expansion loop, voxel by voxel

\* The meshes the loop is run on: the quad, and the box whose interior holds
\* a voxel the shell cleaner deactivates.
ExpanderMeshes == {QuadMesh, DeepBoxMesh}

\* Lines 1785-1811 on the grids g the contour tracer left, dist being the
\* distance tree after propagateSign and IntersectingVoxelSign.
ExpanderSigned(g, dist) ==
  [ dist  |-> dist,
    index |-> g.index,
    inter |-> IntersectingVoxelCleaner(dist, g.inter) ]

\* Lines 1814-1825: ShellVoxelCleaner.
ExpanderShell(g) ==
  [ dist  |-> ShellVoxelCleanerDist(g.dist, g.inter),
    index |-> ShellVoxelCleanerIndex(g.dist, g.index, g.inter),
    inter |-> g.inter ]

\* Lines 1839-1887 in signed mode.
ExpanderSignedField(dist, ex, in, vs) ==
  SwapBackground(TileSignOp(VoxelSignOp(
    SignedFloodFill(SqrtAndScaleOp(dist, vs, FALSE)), ex, in), ex, in), ex)

\* Lines 1902-1924.
ExpanderRenorm(dist) == MinOp(dist, RenormOp(dist))

\* doConvert at line 2021 for the first time, uninterrupted, after one sign
\* sweep: each pass of lines 1758-2019 applied to the result of the one
\* before.
ExpanderInit ==
  /\ mConversionFlags = 0
  /\ signSweeps = 1
  /\ mSignSweeps = 1
  /\ voxelSize = 1
  /\ mesh \in ExpanderMeshes
  /\ unsignedDistField = FALSE
  /\ \E ex \in BandWidths, in \in BandWidths :
       /\ exBandWidth = BandCode(ex, voxelSize)
       /\ inBandWidth = BandCode(in, voxelSize)
  /\ NeedsDilation
  /\ \E g1 \in {TracerGrids(mesh, TRUE)} :
       \E g2 \in {PropagateSign(g1.dist, g1.inter)} :
         \E g3 \in {IntersectingVoxelSign(mesh, g2, g1.index, g1.inter)} :
           \E g4 \in {ExpanderShell(ExpanderSigned(g1, g3))} :
             \E g5 \in {ExpanderSignedField(g4.dist, exBandWidth, inBandWidth, voxelSize)} :
               \E g6 \in {OffsetOp(ExpanderRenorm(OffsetOp(g5, -1)), 1)} :
                 /\ mDistGrid = g6
                 /\ mIndexGrid = [g4.index EXCEPT !.on = @ \cup g6.on]
                 /\ maskTree = g6.on
  /\ mIntersectingVoxelsGrid = {}
  /\ i = 1
  /\ pc = "expand"
  /\ interrupted = FALSE
  /\ sweepsDone = 1
  /\ observed = FALSE
  /\ stage = "union"
  /\ polysVoxelized = NumPolys(mesh)
  /\ coordList = << >>
  /\ seed = -1
  /\ pos = -1
  /\ closestPrimIndex = 0
  /\ voxelizer = IdleVoxelizer

\* The leaf as ExpandNB::operator() sees it.
ExpanderLeaf ==
  [ val  |-> mDistGrid.val,  on  |-> [p \in Pos |-> p \in mDistGrid.on],
    ival |-> mIndexGrid.val, ion |-> [p \in Pos |-> p \in mIndexGrid.on],
    mask |-> [p \in Pos |-> p \in maskTree], closestPrimIndex |-> closestPrimIndex,
    mesh |-> mesh, exBandWidth |-> exBandWidth,
    inBandWidth |-> inBandWidth, voxelSize |-> voxelSize ]

\* Lines 2021-2029 and 1264-1284: the mask is dilated and the operator
\* entered, its iterator on the first active voxel of the mask leaf.
ExpandBegin ==
  /\ pc = "expand"
  /\ pos = -1
  /\ maskTree # {}
  /\ maskTree' = DilateVoxels(maskTree)
  /\ pos' = NextOn(DilateVoxels(maskTree), -1)
  /\ closestPrimIndex' = 0
  /\ stage' = "expand"
  /\ UNCHANGED <<voxelizerVars, tracerVars, ctorVars, argVars, grids, i, pc, interrupted, sweepsDone,
                 observed, polysVoxelized>>

\* Lines 1285-1312: one turn of the loop over the active mask voxels.
ExpandVisit ==
  /\ pc = "expand"
  /\ pos \in Pos
  /\ \E st \in {ExpanderLeaf} :
       \E nx \in {ExpandVoxel(st, pos)} :
         \E g \in {Expanded(mDistGrid, mIndexGrid, nx)} :
           /\ mDistGrid' = g.dist
           /\ mIndexGrid' = g.index
           /\ maskTree' = g.mask
           /\ closestPrimIndex' = nx.closestPrimIndex
  /\ pos' = NextOn(maskTree, pos)
  /\ UNCHANGED <<voxelizerVars, tracerVars, ctorVars, argVars, mIntersectingVoxelsGrid, i, pc, interrupted,
                 ghosts>>

\* Lines 2031-2032: expand.runParallel() returns, back to the loop head.
ExpandEnd ==
  /\ pc = "expand"
  /\ pos = LeafDim * LeafDim * LeafDim
  /\ pos' = -1
  /\ UNCHANGED <<voxelizerVars, tracerVars, ctorVars, argVars, grids, maskTree, i, pc, interrupted, ghosts,
                 closestPrimIndex>>

\* Line 2021: the mask has no active voxel left.
ExpandExit ==
  /\ pc = "expand"
  /\ pos = -1
  /\ maskTree = {}
  /\ pc' = "finish"
  /\ UNCHANGED <<voxelizerVars, tracerVars, expanderVars, ctorVars, argVars, grids, maskTree, i,
                 interrupted, ghosts>>

ExpanderNext ==
  \/ ExpandBegin
  \/ ExpandVisit
  \/ ExpandEnd
  \/ ExpandExit

\* doConvert is sequential code: while the loop runs (pc = "expand") the
\* walk does not stop for good where it stands. Every step of ExpanderNext
\* but ExpandExit moves pos, and ExpandExit is taken with the mask empty.
ExpanderSpec ==
  /\ ExpanderInit
  /\ [][ExpanderNext]_vars
  /\ WF_pos(pc = "expand" /\ pos' \in (-1 .. NumPos) \ {pos})

\* ------------------------------------------------------------ properties

\* doConvert returned after its last statement or at line 1834.
Completed == pc \in {"done", "empty"}

\* The voxel centre lies strictly inside the volume of the mesh; the closed
\* meshes of the model are axis-aligned boxes spanned by their points.
Interior(m, p) ==
  /\ m.closed
  /\ \A a \in 1 .. 3 :
       LET c == <<CI(p), CJ(p), CK(p)>>[a]
       IN /\ \E v \in 1 .. Len(m.points) : m.points[v][a] < 2 * c
          /\ \E v \in 1 .. Len(m.points) : 2 * c < m.points[v][a]

\* The squared world distance from the voxel centre to the mesh as a code.
MeshDist(m, p, vs) ==
  LET ds == {PrimDistSqr(m, q, p) : q \in 0 .. (NumPolys(m) - 1)}
  IN vs * vs * (CHOOSE d \in ds : \A e \in ds : d <= e)

C2_BandConfinement ==
  Completed =>
    \A v \in mDistGrid.on :
      /\ mDistGrid.val[v] > 0 => mDistGrid.val[v] < exBandWidth
      /\ mDistGrid.val[v] < 0 => -mDistGrid.val[v] <= inBandWidth

\* C3 (unsigned band): after a completed convertToUnsignedDistanceField every
\* voxel closer to the mesh than exBandWidth is active and stores its distance.
C3_UnsignedBandActive ==
  (pc = "done" /\ unsignedDistField) =>
    \A v \in Pos :
      MeshDist(mesh, v, voxelSize) < exBandWidth =>
        v \in mDistGrid.on /\ mDistGrid.val[v] = MeshDist(mesh, v, voxelSize)

\* The stages of doConvert that follow SqrtAndScaleOp in unsigned mode.
AfterSqrt == {"sqrt", "mask", "union", "expand", "finish", "prune"}

\* C4 (unsigned non-negativity): in convertToUnsignedDistanceField, from the
\* sqrt-and-scale step on (expansion, trim, prune), every active voxel of the
\* distance grid has D >= 0.
C4_UnsignedNonNegative ==
  (unsignedDistField /\ stage \in AfterSqrt) =>
    \A v \in mDistGrid.on : mDistGrid.val[v] >= 0

\* An unsigned conversion after an expansion pass that activated voxels.
C4_Witness ==
  /\ unsignedDistField /\ stage = "expand"
  /\ \E v \in mDistGrid.on : mDistGrid.val[v] > 0
  /\ \E v \in mDistGrid.on : mDistGrid.val[v] = 0

\* The index grid was cleared by line 2035.
IndexDropped == stage \in {"finish", "prune"} /\ ~KeepIndexGrid

\* C5 (topology containment): at the end of every stage and on every return
\* caused by cancellation, every active voxel of the distance grid is active
\* in the index grid, until the index grid is dropped.
C5_IndexContainsDist ==
  ~IndexDropped => mDistGrid.on \subseteq mIndexGrid.on

\* A return by cancellation after the expansion loop and the trim, with the
\* index grid kept: the two topologies differ and both are populated.
C5_Witness ==
  /\ pc = "cancelled" /\ stage = "finish" /\ KeepIndexGrid
  /\ mDistGrid.on # {} /\ mDistGrid.on # mIndexGrid.on

\* C6 (background values): after a completed conversion in either mode every
\* inactive voxel, the inactive tiles and the background of the distance grid
\* hold +exBandWidth or -inBandWidth.
C6_InactiveValues ==
  (pc = "done") =>
    /\ \A v \in Pos \ mDistGrid.on : mDistGrid.val[v] \in {exBandWidth, -inBandWidth}
    /\ mDistGrid.tile \in {exBandWidth, -inBandWidth}
    /\ mDistGrid.bg \in {exBandWidth, -inBandWidth}

\* C7 (sign sweeps): when the sweep loop of a signed conversion has been left
\* without cancellation, at least one (trace, propagate) alternation was made,
\* and exactly signSweeps of them when signSweeps >= 1.
C7_SweepCount ==
  (stage = "sign") =>
    /\ sweepsDone >= 1
    /\ signSweeps >= 1 => sweepsDone = signSweeps

\* C8 (cancelled voxelization): when doConvert returns because the flag was
\* set before or during voxelization, the distance grid, the index grid and
\* the intersection mask have no active voxel.
C8_CancelledVoxelization ==
  (pc = "cancelled" /\ stage = "none") =>
    /\ mDistGrid.on = {}
    /\ mIndexGrid.on = {}
    /\ mIntersectingVoxelsGrid = {}

\* The voxelizer ran over polygons of the box before the flag was seen.
C8_Witness ==
  /\ pc = "cancelled" /\ stage = "none"
  /\ mesh = BoxMesh /\ polysVoxelized > 0

\* C9 (cancellation is final): once the driver has seen the flag set, no stage
\* runs and no grid changes.
C9_NothingAfterCancel ==
  [][observed => (grids' = grids /\ stage' = stage)]_vars

\* C10 (index grid flag): after a completed conversion the index grid has no
\* active voxel when bit GENERATE_PRIM_INDEX_GRID is clear, and is active at
\* every active voxel of the distance grid when it is set.
C10_IndexGridFlag ==
  Completed =>
    IF mConversionFlags % 2 = 0
    THEN mIndexGrid.on = {}
    ELSE mDistGrid.on \subseteq mIndexGrid.on

\* A completed conversion that kept a populated index grid.
C10_Witness ==
  /\ pc = "done" /\ mConversionFlags % 2 = 1
  /\ mDistGrid.on # {} /\ mIndexGrid.on # {}

\* The trees of one body run over the whole polygon range.
SerialVoxelizer == VoxelizeRange(mesh, NewVoxelizer, 0, NumPolys(mesh))

\* C11: whichever way the polygon range was cut into sub-ranges and the
\* bodies were joined, the merged squared distances, intersection mask and
\* primitive indices are those of the serial run over the whole range (whose
\* index on equal distances is the earlier polygon's).
C11_SplitDeterminacy ==
  (stage = "voxelize" /\ ~interrupted) =>
    LET serial == SerialVoxelizer
    IN /\ mDistGrid.val = serial.sqrDist
       /\ mDistGrid.on = serial.sqrOn
       /\ mIntersectingVoxelsGrid = serial.inter
       /\ mIndexGrid.val = serial.primIdx
       /\ mIndexGrid.on = serial.primOn

\* A merged voxel at the same distance from its polygon and from a polygon of
\* a later sub-range.
C11_Witness ==
  /\ stage = "voxelize"
  /\ mesh = BoxMesh
  /\ \E v \in mDistGrid.on :
       /\ mIndexGrid.val[v] < NumPolys(mesh) \div 2
       /\ \E q \in (NumPolys(mesh) \div 2) .. (NumPolys(mesh) - 1) :
            PrimDistSqr(mesh, q, v) = Abs(mDistGrid.val[v])

\* The pairs (exBandWidth, inBandWidth) TrimOp is applied with below: the
\* pairs of input widths and the pair of the state (interior width 0 in the
\* unsigned mode).
TrimWidths ==
  ({BandCode(1, voxelSize), BandCode(3, voxelSize)} \X {BandCode(1, voxelSize), BandCode(3, voxelSize)})
    \cup {<<exBandWidth, inBandWidth>>}

\* C12: on the distance grid of every state, with every pair of widths, a
\* second TrimOp pass changes neither a value nor an active state.
C12_TrimIdempotent ==
  \A w \in TrimWidths :
    LET once == TrimOp(mDistGrid, w[1], w[2])
    IN TrimOp(once, w[1], w[2]) = once

\* The trim pass is about to run on a grid of which it turns some active
\* voxels off and leaves others active.
C12_Witness ==
  /\ pc = "finish"
  /\ NeedsTrim
  /\ TrimOp(mDistGrid, exBandWidth, inBandWidth).on # mDistGrid.on
  /\ TrimOp(mDistGrid, exBandWidth, inBandWidth).on # {}

\* C13: a pass of the expansion loop leaves every voxel that was active in
\* the distance grid active and with its value, so the active-voxel count
\* does not decrease.
C13_ExpansionKeepsActive ==
  [][Expand => /\ mDistGrid.on \subseteq mDistGrid'.on
               /\ \A v \in mDistGrid.on : mDistGrid'.val[v] = mDistGrid.val[v]
               /\ Cardinality(mDistGrid'.on) >= Cardinality(mDistGrid.on)]_vars

\* A pass has run and activated voxels next to the ones that were active.
C13_Witness ==
  /\ stage = "expand"
  /\ maskTree # {}
  /\ maskTree \subseteq mDistGrid.on
  /\ mDistGrid.on \ maskTree # {}

\* C14: from one head of the expansion loop to the next the number of active
\* mask voxels strictly decreases.
C14_MaskStrictlyDecreases ==
  [][Expand => Cardinality(maskTree') < Cardinality(maskTree)]_vars

\* The stages whose distance grid holds squared index-space distances.
SquaredStages == {"voxelize", "trace", "propagate", "sign", "clean", "shell"}

\* C15 as stated: at the end of each squared-distance stage every active
\* distance voxel v holds, up to sign, the squared distance from its centre
\* to the polygon I[v].
C15_DistIndexConsistent ==
  (stage \in SquaredStages) =>
    \A v \in mDistGrid.on :
      /\ mIndexGrid.val[v] \in 0 .. (NumPolys(mesh) - 1)
      /\ PrimDistSqr(mesh, mIndexGrid.val[v], v) = Abs(mDistGrid.val[v])

\* C15, amended: the same, except that after the shell cleaner a voxel
\* outside M may hold the clamp value -SqrRadius while its polygon I[v] is
\* closer than that.
C15_ConsistentOffClamp ==
  (stage \in SquaredStages) =>
    \A v \in mDistGrid.on :
      /\ mIndexGrid.val[v] \in 0 .. (NumPolys(mesh) - 1)
      /\ \/ PrimDistSqr(mesh, mIndexGrid.val[v], v) = Abs(mDistGrid.val[v])
         \/ /\ stage = "shell"
            /\ v \notin mIntersectingVoxelsGrid
            /\ mDistGrid.val[v] = -SqrRadius
            /\ PrimDistSqr(mesh, mIndexGrid.val[v], v) < SqrRadius

\* The shell cleaner has run, clamped one voxel and left another, nonzero
\* one as voxelized.
C15_Witness ==
  /\ stage = "shell"
  /\ \E v \in mDistGrid.on :
       /\ mDistGrid.val[v] = -SqrRadius
       /\ PrimDistSqr(mesh, mIndexGrid.val[v], v) < SqrRadius
  /\ \E v \in mDistGrid.on :
       /\ mDistGrid.val[v] > 0
       /\ PrimDistSqr(mesh, mIndexGrid.val[v], v) = mDistGrid.val[v]

\* C16 as stated: at the end of voxelization a voxel is active in the
\* squared-distance grid iff it is active in the index grid iff it is in M.
C16_SharedTopology ==
  (stage = "voxelize") =>
    /\ mDistGrid.on = mIndexGrid.on
    /\ mDistGrid.on = mIntersectingVoxelsGrid

\* The body w, reached after polygon n - 1, and every later body of the
\* serial run have equal distance and index topology, containing the mask.
RECURSIVE TopologyKept(_, _, _)
TopologyKept(m, w, n) ==
  /\ w.sqrOn = w.primOn
  /\ w.inter \subseteq w.sqrOn
  /\ n >= NumPolys(m) \/ TopologyKept(m, VoxelizeRange(m, w, n, n + 1), n + 1)

\* C16, amended: after every polygon of the range and at the end of
\* voxelization the distance and index grids have the same active voxels
\* and M is a subset of them; at the end M holds exactly the active voxels
\* whose squared distance is below SqrRadius.
C16_MaskWithinTopology ==
  (stage = "voxelize") =>
    /\ mDistGrid.on = mIndexGrid.on
    /\ mIntersectingVoxelsGrid = {v \in mDistGrid.on : Abs(mDistGrid.val[v]) < SqrRadius}
    /\ TopologyKept(mesh, NewVoxelizer, 0)

\* Voxelization ended with intersecting voxels and with active voxels
\* outside M.
C16_Witness ==
  /\ stage = "voxelize"
  /\ mIntersectingVoxelsGrid # {}
  /\ mDistGrid.on \ mIntersectingVoxelsGrid # {}
  /\ mDistGrid.on = mIndexGrid.on

\* The loop over the mask voxels taken from the last position of the leaf
\* to the first: another order in which parallel_for may meet them.
RECURSIVE ExpandRowDown(_, _, _)
ExpandRowDown(st, p, first) ==
  IF p < first THEN st
  ELSE ExpandRowDown(ExpandVoxel(st, p), p - 1, first)

RECURSIVE ExpandDown(_, _)
ExpandDown(st, row) ==
  IF row < 0 \/ st # st THEN st
  ELSE ExpandDown(ExpandRowDown(st, row * LeafDim + LeafDim - 1, row * LeafDim), row - 1)

\* ExpandNB::runParallel with that order.
ExpandNBDown(m, dist, index, mask, exWidth, inWidth, vs) ==
  Expanded(dist, index,
           ExpandDown([ val  |-> dist.val,  on  |-> [p \in Pos |-> p \in dist.on],
                        ival |-> index.val, ion |-> [p \in Pos |-> p \in index.on],
                        mask |-> [p \in Pos |-> p \in mask], closestPrimIndex |-> 0,
                        mesh |-> m, exBandWidth |-> exWidth,
                        inBandWidth |-> inWidth, voxelSize |-> vs ],
                      LeafDim * LeafDim - 1))

C18_ShellClampMax ==
  [][CleanShell =>
       \A v \in ShellCandidates(mDistGrid, mIntersectingVoxelsGrid) :
         IF Nbrs(v, 18) \cap mIntersectingVoxelsGrid # {}
         THEN /\ v \in mDistGrid'.on
              /\ mDistGrid'.val[v] = Max(mDistGrid.val[v], -SqrRadius)
         ELSE /\ v \notin mDistGrid'.on
              /\ v \notin mIndexGrid'.on]_vars

\* C18, amended: the value left is min(D[v], -SqrRadius).
C18_ShellClampMin ==
  [][CleanShell =>
       \A v \in ShellCandidates(mDistGrid, mIntersectingVoxelsGrid) :
         IF Nbrs(v, 18) \cap mIntersectingVoxelsGrid # {}
         THEN /\ v \in mDistGrid'.on
              /\ v \in mIndexGrid'.on
              /\ mDistGrid'.val[v] = Min(mDistGrid.val[v], -SqrRadius)
         ELSE /\ v \notin mDistGrid'.on
              /\ v \notin mIndexGrid'.on]_vars

\* The shell cleaner has run and lowered a voxel that has an 18-neighbour
\* in M to the bound.
C18_Witness ==
  /\ stage = "shell"
  /\ \E v \in mDistGrid.on \ mIntersectingVoxelsGrid :
       /\ Nbrs(v, 18) \cap mIntersectingVoxelsGrid # {}
       /\ mDistGrid.val[v] = -SqrRadius
       /\ PrimDistSqr(mesh, mIndexGrid.val[v], v) = 0

\* The state of sparseScan(slice) when its j loop reaches `row`.
RECURSIVE RowStart(_, _, _, _, _, _)
RowStart(st, on, inter, slice, j, row) ==
  IF j >= row \/ st # st THEN st
  ELSE RowStart(ScanRow(st, on, inter, slice, j, 0), on, inter, slice, j + 1, row)

\* C19: in every slice scan of the tracer lastVoxelWasOut is true when a
\* j-row starts.
C19_RowStartsOutside ==
  (pc = "sweep" /\ ~interrupted /\ i < mSignSweeps) =>
    \A slice \in 0 .. (LeafDim - 1) : \A row \in 0 .. (LeafDim - 1) :
      RowStart([val |-> mDistGrid.val, lastVoxelWasOut |-> TRUE, last_k |-> 0],
               mDistGrid.on, mIntersectingVoxelsGrid, slice, 0, row).lastVoxelWasOut

\* C20: when propagateSign has run, no active voxel outside M with a
\* negative value has an active face neighbour with a positive value.
C20_SignFixpoint ==
  [][Propagate =>
       \A v \in mDistGrid'.on \ mIntersectingVoxelsGrid :
         mDistGrid'.val[v] < 0 =>
           \A np \in Nbrs(v, 6) : ~(np \in mDistGrid'.on /\ mDistGrid'.val[np] > 0)]_vars

\* propagateSign is about to run on a grid the tracer left inconsistent:
\* the first voxel that passes its test is the seed of a region of several
\* voxels.
C20_Witness ==
  /\ pc = "propagate"
  /\ ~interrupted
  /\ \E p \in mDistGrid.on :
       /\ NeedsTrace(mDistGrid.val, mDistGrid.on, mIntersectingVoxelsGrid, p)
       /\ Cardinality(TracerReach(mDistGrid.val, mDistGrid.on, mIntersectingVoxelsGrid,
                                  {}, {p})) > 1

\* What one iteration of surfaceTracer may change: values only, and only at
\* active voxels outside M, from a negative value to its magnitude.
TracerStepSafe ==
  /\ mDistGrid' = [mDistGrid EXCEPT !.val = mDistGrid'.val]
  /\ mIndexGrid' = mIndexGrid
  /\ mIntersectingVoxelsGrid' = mIntersectingVoxelsGrid
  /\ \A v \in Pos :
       mDistGrid'.val[v] # mDistGrid.val[v] =>
         /\ v \in mDistGrid.on
         /\ v \notin mIntersectingVoxelsGrid
         /\ mDistGrid.val[v] < 0
         /\ mDistGrid'.val[v] = -mDistGrid.val[v]

\* C21: surfaceTracer started at a seed outside M halts, and every
\* iteration changes only active voxels outside M, turning a negative value
\* into the positive value of the same magnitude; M and the active states
\* stay as they are.
C21_TracerHalts ==
  /\ [][TracerNext => TracerStepSafe]_vars
  /\ <>(coordList = << >>)

\* A run has halted after flipping its seed and a face neighbour of it. Both
\* were negative on entry.
C21_Witness ==
  /\ coordList = << >>
  /\ seed \in mDistGrid.on
  /\ mDistGrid.val[seed] > 0
  /\ \E np \in Nbrs(seed, 6) \cap mDistGrid.on :
       /\ mDistGrid.val[np] > 0
       /\ \A traced \in BOOLEAN :
            \E g \in {TracerGrids(mesh, traced).dist.val} : g[seed] < 0 /\ g[np] < 0

\* IntersectingVoxelSign::evalVoxel(ijk) applied to the grid as it is when
\* the voxel is reached.
SignEvalVoxel(m, dist, index, inter, p) ==
  IF SignFlips(m, dist, index, inter, p)
  THEN [dist EXCEPT !.val[p] = -dist.val[p], !.on = @ \cup {p}]
  ELSE dist

\* The voxels of the intersection tree taken one by one, in ascending or in
\* descending order of position.
RECURSIVE SignInOrder(_, _, _, _, _, _)
SignInOrder(m, dist, index, inter, todo, up) ==
  IF todo = {} \/ dist # dist THEN dist
  ELSE LET p == CHOOSE x \in todo : \A y \in todo : IF up THEN x <= y ELSE x >= y
       IN SignInOrder(m, SignEvalVoxel(m, dist, index, inter, p), index, inter,
                      todo \ {p}, up)

CleanVoxel(dist, inter, p) ==
  IF \E mp \in Nbrs(p, 26) : mp \in dist.on /\ dist.val[mp] > 0
  THEN inter
  ELSE inter \ {p}

\* The voxels of the intersection tree cleaned one by one, in ascending or
\* in descending order of position.
RECURSIVE CleanInOrder(_, _, _, _)
CleanInOrder(dist, inter, todo, up) ==
  IF todo = {} THEN inter
  ELSE LET p == CHOOSE x \in todo : \A y \in todo : IF up THEN x <= y ELSE x >= y
       IN CleanInOrder(dist, CleanVoxel(dist, inter, p), todo \ {p}, up)

ExpandRuleAt(st, nx, p) ==
  \E prim \in {ClosestPrim(st, p, st.closestPrimIndex)} :
    \E d \in {GetDistToPrim(st.mesh, p, prim, st.voxelSize)} :
      /\ IF st.val[p] >= 0 /\ d < st.exBandWidth
         THEN nx.on[p] /\ nx.val[p] = d /\ nx.ion[p] /\ nx.ival[p] = prim /\ nx.mask[p]
         ELSE IF st.val[p] < 0 /\ d < st.inBandWidth
         THEN nx.on[p] /\ nx.val[p] = -d /\ nx.ion[p] /\ nx.ival[p] = prim /\ nx.mask[p]
         ELSE /\ ~nx.on[p] /\ nx.val[p] = st.val[p] /\ ~nx.mask[p]
              /\ nx.ion[p] = st.ion[p] /\ nx.ival[p] = st.ival[p]
      /\ nx.on[p] => (nx.val[p] < 0 <=> st.val[p] < 0)
      /\ nx = [st EXCEPT !.val[p] = nx.val[p], !.on[p] = nx.on[p], !.mask[p] = nx.mask[p],
                         !.ival[p] = nx.ival[p], !.ion[p] = nx.ion[p],
                         !.closestPrimIndex = prim]


\* C24: in a pass of the expansion a mask voxel p that is inactive in the
\* distance leaf is activated with +d and the chosen primitive iff its
\* inactive value is >= 0 and d < exBandWidth, with -d iff the value is < 0
\* and d < inBandWidth, and is otherwise left inactive and cleared from the
\* mask; the sign of an activated voxel is the sign of its inactive value.
C24_ActivationRule ==
  [][(ExpandVisit /\ pos \notin mDistGrid.on) =>
       ExpandRuleAt(ExpanderLeaf, ExpanderLeaf', pos)]_vars

\* A pass has ended in which the rule activated a voxel inside and a voxel
\* outside: the mask holds the voxels the pass activated.
C24_Witness ==
  /\ pc = "expand"
  /\ pos = LeafDim * LeafDim * LeafDim
  /\ \E v \in maskTree : mDistGrid.val[v] < 0
  /\ \E v \in maskTree : mDistGrid.val[v] > 0


\* The slices scanned one after another from the last to the first.
RECURSIVE TraceSlicesDown(_, _, _, _)
TraceSlicesDown(val, on, inter, slice) ==
  IF slice < 0 \/ val # val THEN val
  ELSE TraceSlicesDown(SparseScan(val, on, inter, slice), on, inter, slice - 1)

\* Every slice scanned on the values the tracer was started with, each task
\* contributing the voxels of its own slice.
TraceSlicesApart(val, on, inter) ==
  LET scans == [s \in 0 .. (LeafDim - 1) |-> SparseScan(val, on, inter, s)]
  IN [p \in Pos |-> scans[CI(p)][p]]

\* C25: the scan of slice s changes values only at voxels whose i equals s,
\* and the tracer leaves the same values whether the slices are scanned in
\* ascending order, in descending order, or each on the values of the start.
C25_SlicesIndependent ==
  [][Trace =>
       /\ \A s \in 0 .. (LeafDim - 1) :
            \E scan \in {SparseScan(mDistGrid.val, mDistGrid.on, mIntersectingVoxelsGrid, s)} :
              \A v \in Pos : scan[v] # mDistGrid.val[v] => CI(v) = s
       /\ mDistGrid'.val = TraceSlicesDown(mDistGrid.val, mDistGrid.on,
                                           mIntersectingVoxelsGrid, LeafDim - 1)
       /\ mDistGrid'.val = TraceSlicesApart(mDistGrid.val, mDistGrid.on,
                                            mIntersectingVoxelsGrid)]_vars

\* The tracer has run on the closed box: in two adjacent slices it has left
\* voxels outside M positive and voxels outside M negative.
C25_Witness ==
  /\ stage = "trace"
  /\ mesh = BoxMesh
  /\ \E s \in 0 .. (LeafDim - 2) :
       \A t \in {s, s + 1} :
         /\ \E v \in mDistGrid.on \ mIntersectingVoxelsGrid :
              CI(v) = t /\ mDistGrid.val[v] > 0
         /\ \E v \in mDistGrid.on \ mIntersectingVoxelsGrid :
              CI(v) = t /\ mDistGrid.val[v] < 0


\* The voxel the step about to be taken calls evalVoxel at, or -1.
EvalAt ==
  IF voxelizer.phase = "seed"
  THEN NearestCoord(Point(mesh, Poly(mesh, voxelizer.n)[voxelizer.t]))
  ELSE IF voxelizer.phase = "nbrs"
  THEN (IF Nbr(voxelizer.ijk, voxelizer.nb) # -1
           /\ voxelizer.w.lastPrim[Nbr(voxelizer.ijk, voxelizer.nb)] # voxelizer.n
        THEN Nbr(voxelizer.ijk, voxelizer.nb) ELSE -1)
  ELSE -1

\* The write rule for the call evalVoxel(c, q) with d2 the squared distance
\* from c to q, between the body w and the body nw after the call.
EvalRule(w, nw, c, q, d2) ==
  /\ IF d2 < Abs(w.sqrDist[c])
     THEN nw.sqrDist[c] = -d2 /\ nw.primIdx[c] = q
     ELSE nw.sqrDist[c] = w.sqrDist[c] /\ nw.primIdx[c] = w.primIdx[c]
  /\ nw.sqrDist = [w.sqrDist EXCEPT ![c] = nw.sqrDist[c]]
  /\ nw.primIdx = [w.primIdx EXCEPT ![c] = nw.primIdx[c]]

\* What one body has reached at the voxel p, given the polygons evalVoxel
\* was called with there.
EvalMin(m, w, p, qs) ==
  \E least \in {d \in {PrimDistSqr(m, q, p) : q \in qs} :
                  \A q \in qs : d <= PrimDistSqr(m, q, p)} :
    /\ w.sqrDist[p] = -least
    /\ w.primIdx[p] \in qs
    /\ PrimDistSqr(m, w.primIdx[p], p) = least
    /\ \A q \in qs : PrimDistSqr(m, q, p) = least => w.primIdx[p] <= q

\* Every active value of the body is <= 0 and is what EvalMin tells, and the
\* active voxels are the ones evalVoxel was called at.
EvalMinAll(m, w, evald) ==
  /\ w.sqrOn = {p \in Pos : evald[p] # {}}
  /\ w.primOn = w.sqrOn
  /\ \A p \in w.sqrOn :
       /\ w.sqrDist[p] <= 0
       /\ EvalMin(m, w, p, evald[p])

\* C26: evalVoxel(c, q) overwrites the distance and index at c with -d2 and q
\* iff d2 < |D_sq[c]| and changes nothing else; in the neighbour loop it
\* returns true (c is pushed) iff d2 is below the radius, whether or not it
\* wrote; after every call the value at c, and after every polygon of a
\* body's range each active value, is <= 0 and is minus the least squared
\* distance over the polygons evaluated at the voxel, the index being the
\* first-processed polygon at that distance.
C26_WriteRule ==
  /\ [][VoxelizerNext =>
          IF EvalAt = -1
          THEN voxelizer'.w.sqrDist = voxelizer.w.sqrDist
               /\ voxelizer'.w.primIdx = voxelizer.w.primIdx
          ELSE /\ EvalRule(voxelizer.w, voxelizer'.w, EvalAt, voxelizer.n,
                           PrimDistSqr(mesh, voxelizer.n, EvalAt))
               /\ voxelizer.phase = "nbrs" =>
                    coordList' = IF PrimDistSqr(mesh, voxelizer.n, EvalAt) < SqrRadius
                                 THEN Append(coordList, EvalAt) ELSE coordList]_vars
  /\ [][VoxelizerNext =>
          \E nv \in {voxelizer'} :
            /\ EvalAt # -1 =>
                 /\ nv.w.sqrDist[EvalAt] <= 0
                 /\ EvalAt \in nv.w.sqrOn
                 /\ EvalMin(mesh, nv.w, EvalAt, nv.evald[EvalAt])
            /\ nv.phase = "head" => EvalMinAll(mesh, nv.w, nv.evald)]_vars

\* A body has finished a polygon: at one voxel two polygons evaluated there
\* are at the least distance and the index is the earlier one, at another a
\* later polygon was closer and replaced the earlier one.
C26_Witness ==
  /\ voxelizer.phase = "head"
  /\ \E p \in voxelizer.w.sqrOn :
       \E q \in voxelizer.evald[p] :
         /\ q > voxelizer.w.primIdx[p]
         /\ PrimDistSqr(mesh, q, p) = -voxelizer.w.sqrDist[p]
  /\ \E p \in voxelizer.w.sqrOn :
       \E q \in voxelizer.evald[p] :
         /\ q < voxelizer.w.primIdx[p]
         /\ PrimDistSqr(mesh, q, p) > -voxelizer.w.sqrDist[p]


\* The voxels of the window whose squared distance to polygon q is below
\* the pruning radius.
NearVoxels(m, q) == {p \in Pos : PrimDistSqr(m, q, p) < SqrRadius}

\* The voxels of `region` that 26-steps inside it reach from `front`.
RECURSIVE Reach26(_, _, _)
Reach26(region, done, front) ==
  IF front = {} THEN done
  ELSE Reach26(region, done \cup front,
               {p \in region \ (done \cup front) : Nbrs(p, 26) \cap front # {}})

\* The premise of C27 for polygon q: the near voxels are 26-connected and
\* hold the voxel nearest to every vertex.
FloodPremise(m, q) ==
  \E near \in {NearVoxels(m, q)} :
    /\ \A t \in 1 .. (IF Poly(m, q)[4] = INVALID_IDX THEN 3 ELSE 4) :
         NearestCoord(Point(m, Poly(m, q)[t])) \in near
    /\ Reach26(near, {}, {NearestCoord(Point(m, Poly(m, q)[1]))}) = near

\* C27: a polygon that meets the premise leaves the same squared distances,
\* primitive indices and intersection mask in the body whether it goes
\* through the short-edge branch or through the long-edge branch.
C27_BranchesAgree ==
  (voxelizer.phase = "head" /\ voxelizer.n < voxelizer.to
     /\ FloodPremise(mesh, voxelizer.n)) =>
    \E sh \in {ShortEdgePrim(mesh, voxelizer.w, voxelizer.n)} :
      \E lg \in {LongEdgePrim(mesh, voxelizer.w, voxelizer.n)} :
        /\ sh.sqrDist = lg.sqrDist
        /\ sh.sqrOn = lg.sqrOn
        /\ sh.primIdx = lg.primIdx
        /\ sh.primOn = lg.primOn
        /\ sh.inter = lg.inter

\* A body that holds the voxels of earlier polygons is at the head of a
\* polygon that meets the premise, whose vertices have different nearest
\* voxels and whose long-edge branch writes distances and marks voxels.
C27_Witness ==
  /\ voxelizer.phase = "head"
  /\ voxelizer.n < voxelizer.to
  /\ voxelizer.w.sqrOn # {}
  /\ FloodPremise(mesh, voxelizer.n)
  /\ NearestCoord(Point(mesh, Poly(mesh, voxelizer.n)[1]))
       # NearestCoord(Point(mesh, Poly(mesh, voxelizer.n)[3]))
  /\ \E lg \in {LongEdgePrim(mesh, voxelizer.w, voxelizer.n)} :
       /\ lg.sqrDist # voxelizer.w.sqrDist
       /\ lg.inter # voxelizer.w.inter
       /\ lg = [ShortEdgePrim(mesh, voxelizer.w, voxelizer.n) EXCEPT !.lastPrim = lg.lastPrim]


\* C28: without cancellation the loop `dilate the mask, run ExpandNB`
\* reaches its head with a mask that has no active voxel.
C28_LoopTerminates == <>(pos = -1 /\ maskTree = {})

\* The loop has been left after passes that activated voxels.
C28_Witness ==
  /\ pc = "finish"
  /\ maskTree = {}
  /\ stage = "expand"
  /\ \E v \in mDistGrid.on : Abs(mDistGrid.val[v]) >= MinWidth(voxelSize)

\* C30: at the head of the expansion loop, before the first pass and after
\* every pass, each voxel active in the mask is active in the distance and
\* index trees; so every voxel of the dilated mask that getDist is called
\* at in the next pass has an active distance voxel among its 18
\* neighbours, and the index read there is the index of a polygon.
C30_GetDistHasNeighbour ==
  pc = "expand" =>
    /\ maskTree \subseteq mDistGrid.on \cap mIndexGrid.on
    /\ \A p \in DilateVoxels(maskTree) \ mDistGrid.on :
         /\ Nbrs(p, 18) \cap mDistGrid.on # {}
         /\ \A n \in Nbrs(p, 18) \cap mDistGrid.on :
              mIndexGrid.val[n] \in 0 .. (NumPolys(mesh) - 1)
         /\ \E n \in Nbrs(p, 18) \cap mDistGrid.on :
              ClosestPrim([val |-> mDistGrid.val, on |-> [x \in Pos |-> x \in mDistGrid.on],
                           ival |-> mIndexGrid.val], p, -1) = mIndexGrid.val[n]

\* A pass has ended with voxels left in the mask, and the next pass will
\* call getDist at voxels of the dilated mask.
C30_Witness ==
  /\ pc = "expand"
  /\ stage = "expand"
  /\ ~interrupted
  /\ maskTree # {}
  /\ DilateVoxels(maskTree) \ mDistGrid.on # {}

\* C29: after an uninterrupted voxelization, joins included, M holds
\* exactly the voxels active in the squared-distance grid with a magnitude
\* below SqrRadius; every voxel of M is active in D and in I; every other
\* active voxel of D is active in I too, holds a squared distance at or above
\* SqrRadius, and was evaluated as a neighbour: one of its 26 neighbours is
\* a voxel of M from which the flood of its polygon went on.
C29_MaskIsNearBand ==
  (stage = "voxelize" /\ polysVoxelized = NumPolys(mesh)) =>
    /\ \A v \in Pos :
         v \in mIntersectingVoxelsGrid
           <=> (v \in mDistGrid.on /\ Abs(mDistGrid.val[v]) < SqrRadius)
    /\ mIntersectingVoxelsGrid \subseteq mDistGrid.on \cap mIndexGrid.on
    /\ \A v \in mDistGrid.on \ mIntersectingVoxelsGrid :
         /\ v \in mIndexGrid.on
         /\ Abs(mDistGrid.val[v]) >= SqrRadius
         /\ PrimDistSqr(mesh, mIndexGrid.val[v], v) = Abs(mDistGrid.val[v])
         /\ \E u \in Nbrs(v, 26) \cap mIntersectingVoxelsGrid :
              PrimDistSqr(mesh, mIndexGrid.val[v], u) < SqrRadius

\* The voxelization of a mesh of several polygons has ended (in one body or
\* in joined ones); a voxel of M is nearest to a polygon of the second half
\* of the range, and there are active voxels at or beyond the radius.
C29_Witness ==
  /\ stage = "voxelize"
  /\ NumPolys(mesh) >= 2
  /\ \E v \in mIntersectingVoxelsGrid : 2 * mIndexGrid.val[v] >= NumPolys(mesh)
  /\ \E v \in mDistGrid.on \ mIntersectingVoxelsGrid : Abs(mDistGrid.val[v]) >= SqrRadius

====
